---- MODULE Spec2Model ----
(***************************************************************************)
(* A model of gorequest's SuperAgent: the fluent accumulation calls        *)
(* (Send, Query, Set, Type, SendFile, Retry, ...), Clone, MakeRequest and  *)
(* the retry loop of EndBytes around getResponseBytes.                     *)
(*                                                                         *)
(* Go maps and pointers are reference types, so the maps of a SuperAgent   *)
(* (Data, Header, QueryData) and its Client and Transport are addresses    *)
(* into heaps; slices that the code only ever copies with make+copy and    *)
(* extends with append are values.                                         *)
(*                                                                         *)
(* A string is modelled by what the two decoders of SendString make of it: *)
(*   [kind |-> "jsonobj", val |-> m]   json.Decode gives the object m      *)
(*   [kind |-> "jsonarr", val |-> q]   json.Decode gives the array q       *)
(*   [kind |-> "jsonscalar", val |-> t] json.Decode gives a scalar/null    *)
(*   [kind |-> "query", val |-> ps]    json fails, url.ParseQuery gives    *)
(*                                     the pairs ps (the empty string is   *)
(*                                     the query string without pairs)     *)
(*   [kind |-> "bad", val |-> t]       both decoders fail                  *)
(* and a longer string by the sequence of the strings it concatenates.     *)
(* Only the form body of SpecForm is modelled character by character, so   *)
(* that the escapes of url.Values.Encode and url.ParseQuery are computed.  *)
(***************************************************************************)
EXTENDS Integers, Sequences, FiniteSets, TLC

VARIABLES
    sa,        \* the SuperAgents: "base" made by New(), "clone" by base.Clone()
    live,      \* the SuperAgents that exist
    heap,      \* map address -> map (Data, Header, QueryData of the agents)
    clients,   \* http.Client address -> its Transport field (0: nil)
    transports,\* http.Transport address -> its Proxy and timeout fields
    pc,        \* per agent: where its EndBytes call stands
    run,       \* per agent: what the current/last EndBytes call did
    built,     \* per agent: the result of its last MakeRequest
    wire,      \* the network attempts: the agent, the transport its client
               \* used and the transport of the agent
    form,      \* a Data map, the form body encoded from it and the values a
               \* receiver parses out of that body
    ctxDone    \* the context.Context of the caller has been cancelled

vars == <<sa, live, heap, clients, transports, pc, run, built, wire, form, ctxDone>>

---------------------------------------------------------------------------
(* Bounds of the model. *)

\* accumulation/configuration calls made on one agent since its request
\* was cleared
MaxCalls == 3
\* the largest retryerCount handed to Retry
MaxRetry == 2
\* EndBytes calls made on one agent
MaxRuns == 2

\* the greatest length of a string value of a form
MaxText == 2

---------------------------------------------------------------------------
(* The type registry and the type names. *)

TypeJSON == "json"
TypeXML == "xml"
TypeText == "text"
TypeHTML == "html"
TypeForm == "form"
TypeFormData == "form-data"
TypeUrlencoded == "urlencoded"
TypeMultipart == "multipart"

TypeNames ==
    {TypeJSON, TypeXML, TypeText, TypeHTML, TypeForm, TypeFormData,
     TypeUrlencoded, TypeMultipart}

Types ==
    [t \in TypeNames |->
        CASE t = TypeJSON -> "application/json"
          [] t = TypeXML -> "application/xml"
          [] t = TypeText -> "text/plain"
          [] t = TypeHTML -> "text/html"
          [] t = TypeMultipart -> "multipart/form-data"
          [] OTHER -> "application/x-www-form-urlencoded"]

---------------------------------------------------------------------------
(* Values. *)

Agents == {"base", "clone"}

Other(a) == IF a = "base" THEN "clone" ELSE "base"

Nil == [kind |-> "nil", val |-> "nil"]

EmptyMap == [k \in {} |-> Nil]

\* the strings
JObj(m) == [kind |-> "jsonobj", val |-> m]

JArr(q) == [kind |-> "jsonarr", val |-> q]

JScalar(t) == [kind |-> "jsonscalar", val |-> t]

QStr(ps) == [kind |-> "query", val |-> ps]

BadStr(t) == [kind |-> "bad", val |-> t]

\* len(str) = 0: only the empty string, the query string without pairs
StrIsEmpty(str) == str = QStr(<<>>)

\* RawString = content: the string sent last alone
Concat_Last(raw, str) == IF StrIsEmpty(str) THEN raw ELSE <<str>>

\* RawString += content
Concat(raw, str) == IF StrIsEmpty(str) THEN raw ELSE Append(raw, str)

\* the values json.Decode (UseNumber) puts under a key
JString(t) == [kind |-> "string", val |-> t]

JNumber(t) == [kind |-> "number", val |-> t]

JNull == [kind |-> "null", val |-> "null"]

JBool(t) == [kind |-> "bool", val |-> t]

\* []interface{}: the array of a JSON object, q the values of its elements
JList(q) == [kind |-> "array", val |-> q]

\* []string, as SendString's query branch builds it
StrArray(q) == [kind |-> "strarray", val |-> q]

\* a map with the pairs of m2 written over those of m1
Merge(m1, m2) ==
    [k \in DOMAIN m1 \cup DOMAIN m2 |-> IF k \in DOMAIN m2 THEN m2[k] ELSE m1[k]]

RECURSIVE SeqToSet(_)
SeqToSet(q) == IF q = <<>> THEN {} ELSE {Head(q)} \cup SeqToSet(Tail(q))

---------------------------------------------------------------------------
(* The heaps. *)

MapAddrs == 1..9

Refs(s) == {s.Header, s.Data, s.QueryData}

\* the map addresses no existing agent holds, smallest first
FreeAddrs == MapAddrs \ UNION {Refs(sa[o]) : o \in live}

RECURSIVE NthFree(_, _)
NthFree(free, n) ==
    LET m == CHOOSE x \in free : \A y \in free : x <= y
    IN  IF n = 1 THEN m ELSE NthFree(free \ {m}, n - 1)

\* make(map...): the address of a new, empty map.  The map it replaces is
\* garbage unless another agent holds it, so its cell is taken again.
NewMap(a, old, n) ==
    IF \E o \in live \ {a} : old \in Refs(sa[o]) THEN NthFree(FreeAddrs, n) ELSE old

Data(a) == heap[sa[a].Data]

Header(a) == heap[sa[a].Header]

QueryData(a) == heap[sa[a].QueryData]

\* http.Header.Get / url.Values.Get: the first value, "" when there is none
Get(m, k) == IF k \in DOMAIN m /\ m[k] # <<>> THEN m[k][1] ELSE ""

\* http.Header.Add / url.Values.Add
Add(m, k, v) == Merge(m, [x \in {k} |-> IF k \in DOMAIN m THEN Append(m[k], v) ELSE <<v>>])

\* http.Header.Set
HSet(m, k, v) == Merge(m, [x \in {k} |-> <<v>>])

---------------------------------------------------------------------------
(* New, ClearSuperAgent and the request verbs. *)

NoRetry == [RetryableStatus |-> <<>>, RetryerCount |-> 0, Attempt |-> 0, Enable |-> FALSE]

New ==
    [Url |-> "", Method |-> "", Header |-> 2, TargetType |-> TypeJSON,
     ForceType |-> "", Data |-> 1, SliceData |-> <<>>, QueryData |-> 3,
     FileData |-> <<>>, BounceToRawString |-> FALSE, RawString |-> <<>>,
     Client |-> 1, Transport |-> 1, Cookies |-> <<>>, Errors |-> <<>>,
     Retryable |-> NoRetry, DoNotClearSuperAgent |-> FALSE, isClone |-> FALSE,
     ctx |-> "nil"]

NoRun ==
    [calls |-> 0, runs |-> 0, iters |-> 0, netCalls |-> 0, sleeps |-> 0,
     policy0 |-> NoRetry, errs0 |-> <<>>, log |-> <<>>, res |-> Nil, errs |-> <<>>,
     retResp |-> Nil, retErrs |-> <<>>, sent |-> <<>>, files |-> <<>>]

NoReq == [err |-> "none", hasBody |-> FALSE, body |-> <<>>, contentType |-> "",
          Header |-> EmptyMap, Method |-> "", Url |-> "", branch |-> "", Host |-> ""]

NoBuilt ==
    [made |-> FALSE, req |-> NoReq, pre |-> New, s |-> New, d |-> EmptyMap, h |-> EmptyMap,
     again |-> FALSE, prev |-> NoReq]

Idle(a) == a \in live /\ pc[a] = "idle" /\ run[a].calls < MaxCalls

Called(a) == [run EXCEPT ![a].calls = @ + 1]

\* (a ClearSuperAgent that does not look at DoNotClearSuperAgent)
ClearSuperAgent_Always(a, s) ==
    [s EXCEPT !.Url = "", !.Method = "",
              !.Header = NewMap(a, s.Header, 1),
              !.Data = NewMap(a, s.Data, 2),
              !.SliceData = <<>>,
              !.QueryData = NewMap(a, s.QueryData, 3),
              !.FileData = <<>>, !.BounceToRawString = FALSE,
              !.RawString = <<>>, !.ForceType = "",
              !.TargetType = TypeJSON, !.Cookies = <<>>, !.Errors = <<>>,
              !.ctx = "nil"]

ClearSuperAgent(a, s) ==
    IF s.DoNotClearSuperAgent
    THEN s
    ELSE [s EXCEPT !.Url = "", !.Method = "",
                   !.Header = NewMap(a, s.Header, 1),
                   !.Data = NewMap(a, s.Data, 2),
                   !.SliceData = <<>>,
                   !.QueryData = NewMap(a, s.QueryData, 3),
                   !.FileData = <<>>, !.BounceToRawString = FALSE,
                   !.RawString = <<>>, !.ForceType = "",
                   !.TargetType = TypeJSON, !.Cookies = <<>>, !.Errors = <<>>,
                   !.ctx = "nil"]

ClearedHeap(s, c) ==
    IF s.DoNotClearSuperAgent
    THEN heap
    ELSE [x \in MapAddrs |-> IF x \in Refs(c) THEN EmptyMap ELSE heap[x]]

\* Post, Put, Head, Delete, Patch, Options (all alike) and Get.  The verb
\* begins a request: the record of the calls, of the last EndBytes and of the
\* last MakeRequest begins anew with it
Verb(a, method) ==
    /\ a \in live /\ pc[a] = "idle"
    /\ LET c == ClearSuperAgent(a, sa[a])
       IN  /\ sa' = [sa EXCEPT ![a] =
                      [c EXCEPT !.Method = method, !.Url = "u", !.Errors = <<>>,
                                !.TargetType = IF method = "GET" THEN "" ELSE c.TargetType]]
           /\ heap' = ClearedHeap(sa[a], c)
    /\ run' = [run EXCEPT ![a] = IF sa[a].DoNotClearSuperAgent
                                  THEN [NoRun EXCEPT !.calls = run[a].calls,
                                                     !.runs = run[a].runs,
                                                     !.sent = run[a].sent,
                                                     !.files = run[a].files]
                                  ELSE [NoRun EXCEPT !.runs = run[a].runs]]
    /\ built' = [built EXCEPT ![a] = NoBuilt]
    /\ UNCHANGED <<live, clients, transports, pc, wire, form, ctxDone>>

SetDoNotClearSuperAgent(a, enable) ==
    /\ Idle(a)
    /\ sa' = [sa EXCEPT ![a].DoNotClearSuperAgent = enable]
    /\ run' = Called(a)
    /\ UNCHANGED <<live, heap, clients, transports, pc, built, wire, form, ctxDone>>

---------------------------------------------------------------------------
(* Headers, Type, Retry, cookies, query parameters. *)

\* the key under which http.Header.Set and Add store a header: the name in
\* its canonical letter case
CanonicalMIMEHeaderKey(k) == IF k \in {"host", "HOST"} THEN "Host" ELSE k

Set(a, param, value) ==
    /\ Idle(a)
    /\ heap' = [heap EXCEPT ![sa[a].Header] = HSet(@, CanonicalMIMEHeaderKey(param), value)]
    /\ run' = Called(a)
    /\ UNCHANGED <<sa, live, clients, transports, pc, built, wire, form, ctxDone>>

AppendHeader(a, param, value) ==
    /\ Idle(a)
    /\ heap' = [heap EXCEPT ![sa[a].Header] = Add(@, CanonicalMIMEHeaderKey(param), value)]
    /\ run' = Called(a)
    /\ UNCHANGED <<sa, live, clients, transports, pc, built, wire, form, ctxDone>>

TypeOf(s, typeStr) ==
    IF typeStr \in DOMAIN Types
    THEN [s EXCEPT !.ForceType = typeStr]
    ELSE [s EXCEPT !.Errors = Append(@, "type")]

Type(a, typeStr) ==
    /\ Idle(a)
    /\ sa' = [sa EXCEPT ![a] = TypeOf(@, typeStr)]
    /\ run' = Called(a)
    /\ UNCHANGED <<live, heap, clients, transports, pc, built, wire, form, ctxDone>>

\* http.StatusText(code) is not empty
KnownStatus(code) == code \in {200, 400, 500}

RECURSIVE StatusErrors(_)
StatusErrors(codes) ==
    IF codes = <<>> THEN <<>>
    ELSE (IF KnownStatus(Head(codes)) THEN <<>> ELSE <<"status">>) \o StatusErrors(Tail(codes))

RetryOf(s, retryerCount, statusCode) ==
    [s EXCEPT !.Errors = @ \o StatusErrors(statusCode),
              !.Retryable = [RetryableStatus |-> statusCode,
                             RetryerCount |-> retryerCount,
                             Attempt |-> 0, Enable |-> TRUE]]

Retry(a, retryerCount, statusCode) ==
    /\ Idle(a)
    /\ sa' = [sa EXCEPT ![a] = RetryOf(@, retryerCount, statusCode)]
    /\ run' = Called(a)
    /\ UNCHANGED <<live, heap, clients, transports, pc, built, wire, form, ctxDone>>

\* Context(ctx), with the one context of the caller
Context(a) ==
    /\ Idle(a)
    /\ sa' = [sa EXCEPT ![a].ctx = "ctx"]
    /\ run' = Called(a)
    /\ UNCHANGED <<live, heap, clients, transports, pc, built, wire, form, ctxDone>>

\* the caller cancels the context, at any moment, from any goroutine
Cancel ==
    /\ ~ctxDone
    /\ ctxDone' = TRUE
    /\ UNCHANGED <<sa, live, heap, clients, transports, pc, run, built, wire, form>>

AddCookie(a, c) ==
    /\ Idle(a)
    /\ sa' = [sa EXCEPT ![a].Cookies = Append(@, c)]
    /\ run' = Called(a)
    /\ UNCHANGED <<live, heap, clients, transports, pc, built, wire, form, ctxDone>>

Param(a, key, value) ==
    /\ Idle(a)
    /\ heap' = [heap EXCEPT ![sa[a].QueryData] = Add(@, key, value)]
    /\ run' = Called(a)
    /\ UNCHANGED <<sa, live, clients, transports, pc, built, wire, form, ctxDone>>

\* the keys a map may hold, in the order url.Values.Encode sorts them
KeyOrder == <<"a", "b">>

\* the key, value pairs of a JSON object whose values are strings
PairsOfObject(m) ==
    LET pick(k) == IF k \in DOMAIN m THEN <<<<k, m[k].val>>>> ELSE <<>>
    IN  pick(KeyOrder[1]) \o pick(KeyOrder[2])

\* json.Unmarshal into a map[string]string succeeds
ObjectOfStrings(str) ==
    str.kind = "jsonobj" /\ \A k \in DOMAIN str.val : str.val[k].kind = "string"

\* the pairs Query adds to QueryData: those of a string that decodes as a
\* JSON object of strings, else those url.ParseQuery finds (other JSON text
\* parses as one key without a value); those of the object a struct or a map
\* marshals to
QueryPairs(content) ==
    CASE content.kind = "String" /\ ObjectOfStrings(content.val) ->
            PairsOfObject(content.val.val)
      [] content.kind = "String" /\ content.val.kind = "query" -> content.val.val
      [] content.kind = "String" /\ content.val.kind # "bad" -> <<<<"text", "">>>>
      [] content.kind = "String" -> <<>>
      [] content.kind \in {"Struct", "Map"} /\ content.val.kind # "unmarshalable" ->
            PairsOfObject(content.val.val)
      [] OTHER -> <<>>

QueryErrors(content) ==
    CASE content.kind = "String" /\ content.val.kind = "bad" -> <<"query">>
      [] content.kind \in {"Struct", "Map"} /\ content.val.kind = "unmarshalable" -> <<"marshal">>
      [] OTHER -> <<>>

RECURSIVE AddAll(_, _)
AddAll(m, pairs) ==
    IF pairs = <<>> THEN m
    ELSE AddAll(Add(m, Head(pairs)[1], Head(pairs)[2]), Tail(pairs))

Query(a, content) ==
    /\ Idle(a)
    /\ heap' = [heap EXCEPT ![sa[a].QueryData] = AddAll(@, QueryPairs(content))]
    /\ sa' = [sa EXCEPT ![a].Errors = @ \o QueryErrors(content)]
    /\ run' = Called(a)
    /\ UNCHANGED <<live, clients, transports, pc, built, wire, form, ctxDone>>

---------------------------------------------------------------------------
(* Send and its branches. *)

SendSliceOf(s, content) == [s EXCEPT !.SliceData = @ \o content]

\* SendString's query branch, one key=value pair after the other: a key that
\* Data already holds becomes a []string of the new value and the old ones
RECURSIVE FormMerge(_, _)
FormMerge(d, pairs) ==
    IF pairs = <<>> THEN d
    ELSE LET k == Head(pairs)[1]
             v == Head(pairs)[2]
             old == IF k \in DOMAIN d THEN d[k] ELSE Nil
             new == IF k \in DOMAIN d
                    THEN StrArray(<<v>> \o (CASE old.kind = "strarray" -> old.val
                                              [] old.kind = "string" -> <<old.val>>
                                              [] OTHER -> <<>>))
                    ELSE JString(v)
         IN  FormMerge(Merge(d, [x \in {k} |-> new]), Tail(pairs))

\* a SendString that merges a JSON object and never looks at what Data holds
\* after the merge
SendStringOf_NoEmptyCheck(s, d, content) ==
    LET parsed ==
            IF s.BounceToRawString THEN [s |-> s, d |-> d]
            ELSE CASE content.kind = "jsonobj" -> [s |-> s, d |-> Merge(d, content.val)]
                   [] content.kind = "jsonarr" ->
                        [s |-> SendSliceOf(s, content.val), d |-> d]
                   [] content.kind = "query" ->
                        [s |-> [s EXCEPT !.TargetType = TypeForm],
                         d |-> FormMerge(d, content.val)]
                   [] OTHER ->
                        [s |-> [s EXCEPT !.BounceToRawString = TRUE], d |-> d]
    IN  [s |-> [parsed.s EXCEPT !.RawString = Concat(@, content)], d |-> parsed.d]

\* a SendString that decodes its string also after the bounce
SendStringOf_AlwaysDecodes(s, d, content) ==
    LET parsed ==
            CASE content.kind = "jsonobj" ->
                    LET d2 == Merge(d, content.val)
                    IN  [s |-> [s EXCEPT !.BounceToRawString = @ \/ (DOMAIN d2 = {})],
                         d |-> d2]
              [] content.kind = "jsonarr" ->
                    [s |-> SendSliceOf(s, content.val), d |-> d]
              [] content.kind = "query" ->
                    [s |-> [s EXCEPT !.TargetType = TypeForm],
                     d |-> FormMerge(d, content.val)]
              [] OTHER ->
                    [s |-> [s EXCEPT !.BounceToRawString = TRUE], d |-> d]
    IN  [s |-> [parsed.s EXCEPT !.RawString = Concat(@, content)], d |-> parsed.d]

\* the agent and its Data map after SendString(content)
SendStringOf(s, d, content) ==
    LET parsed ==
            IF s.BounceToRawString THEN [s |-> s, d |-> d]
            ELSE CASE content.kind = "jsonobj" ->
                        LET d2 == Merge(d, content.val)
                        IN  [s |-> [s EXCEPT !.BounceToRawString = (DOMAIN d2 = {})],
                             d |-> d2]
                   [] content.kind = "jsonarr" ->
                        [s |-> SendSliceOf(s, content.val), d |-> d]
                   [] content.kind = "jsonscalar" ->
                        [s |-> [s EXCEPT !.BounceToRawString = TRUE], d |-> d]
                   [] content.kind = "query" ->
                        [s |-> [s EXCEPT !.TargetType = TypeForm],
                         d |-> FormMerge(d, content.val)]
                   [] OTHER ->
                        [s |-> [s EXCEPT !.BounceToRawString = TRUE], d |-> d]
    IN  [s |-> [parsed.s EXCEPT !.RawString = Concat(@, content)], d |-> parsed.d]

\* SendStruct and SendMap: content marshals to the JSON object content.val,
\* or json.Marshal fails
SendStructOf(s, d, content) ==
    IF content.kind = "unmarshalable"
    THEN [s |-> [s EXCEPT !.Errors = Append(@, "marshal")], d |-> d]
    ELSE [s |-> s, d |-> Merge(d, content.val)]

\* a pointer: to the argument content, or nil
Ptr(content) == [kind |-> "Ptr", val |-> content]

\* a Send that takes a nil pointer as it takes a value of no kind it knows
SendPanics_Never(content) == FALSE

\* the Ptr case calls v.Elem().Interface(): Elem of a nil pointer is the zero
\* Value, and Interface on the zero Value panics
SendPanics(content) == content.kind = "Ptr" /\ content.val.kind = "nil"

\* Send dispatches on the kind of its argument; a pointer is followed
RECURSIVE SendOf(_, _, _)
SendOf(s, d, content) ==
    CASE content.kind = "String" -> SendStringOf(s, d, content.val)
      [] content.kind \in {"Int", "Uint", "Float", "Bool"} ->
            SendStringOf(s, d, JScalar(content.val))
      [] content.kind \in {"Struct", "Map"} -> SendStructOf(s, d, content.val)
      [] content.kind \in {"Slice", "Array"} -> [s |-> SendSliceOf(s, content.val), d |-> d]
      [] content.kind = "Ptr" -> SendOf(s, d, content.val)
      [] OTHER -> [s |-> s, d |-> d]

\* the panic of Send unwinds the caller: the chain of a goes no further
Send(a, content) ==
    /\ Idle(a)
    /\ IF SendPanics(content)
       THEN /\ pc' = [pc EXCEPT ![a] = "panic"]
            /\ UNCHANGED <<sa, heap>>
       ELSE /\ LET r == SendOf(sa[a], Data(a), content)
               IN  /\ sa' = [sa EXCEPT ![a] = r.s]
                   /\ heap' = [heap EXCEPT ![sa[a].Data] = r.d]
            /\ UNCHANGED pc
    /\ run' = [run EXCEPT ![a].calls = @ + 1, ![a].sent = Append(@, content)]
    /\ UNCHANGED <<live, clients, transports, built, wire, form, ctxDone>>

---------------------------------------------------------------------------
(* SendFile. *)

Itoa(n) ==
    CASE n = 0 -> "0" [] n = 1 -> "1" [] n = 2 -> "2" [] n = 3 -> "3" [] n = 4 -> "4"
      [] n = 5 -> "5" [] n = 6 -> "6" [] n = 7 -> "7" [] n = 8 -> "8" [] OTHER -> "9"

\* strings.TrimSpace on the strings the model passes
TrimSpace(str) == IF str = " " THEN "" ELSE str

\* a numbering that counts the calls that failed as well
AutoFieldname_CountFailed(s) == "file" \o Itoa(Len(s.FileData) + Len(s.Errors) + 1)

\* the generated field name: "file" and the number of attachments plus one
AutoFieldname(s) == "file" \o Itoa(Len(s.FileData) + 1)

\* file: "bytes", "path" (readable), "missing" (unreadable path), "osfile",
\* "badosfile" (unreadable) or "other"; args: the optional arguments, in order
SendFileOf(s, file, args) ==
    LET filename == IF Len(args) >= 1 /\ args[1] # "" THEN TrimSpace(args[1]) ELSE ""
        fieldarg == IF Len(args) >= 2 /\ args[2] # "" THEN TrimSpace(args[2]) ELSE "file"
        skipFileNumbering == IF Len(args) >= 3 THEN args[3] ELSE FALSE
        fileType == IF Len(args) >= 4 /\ args[4] # "" THEN TrimSpace(args[4])
                    ELSE "application/octet-stream"
        fieldname == IF (fieldarg = "file" /\ ~skipFileNumbering) \/ fieldarg = ""
                     THEN AutoFieldname(s)
                     ELSE fieldarg
        stored(name) == [s EXCEPT !.FileData =
                            Append(@, [Filename |-> IF filename = "" THEN name ELSE filename,
                                       Fieldname |-> fieldname,
                                       MimeType |-> fileType,
                                       Data |-> file])]
    IN  IF Len(args) >= 4 /\ fileType = ""
        THEN [s EXCEPT !.Errors = Append(@, "mime")]
        ELSE CASE file = "path" -> stored("base")
               [] file = "missing" -> [s EXCEPT !.Errors = Append(@, "io")]
               [] file = "bytes" -> stored("filename")
               [] file = "osfile" -> stored("base")
               [] file = "badosfile" -> [s EXCEPT !.Errors = Append(@, "io")]
               [] OTHER -> [s EXCEPT !.Errors = Append(@, "sendFile")]

SendFile(a, file, args) ==
    /\ Idle(a)
    /\ sa' = [sa EXCEPT ![a] = SendFileOf(@, file, args)]
    /\ run' = [run EXCEPT ![a].calls = @ + 1,
                          ![a].files = Append(@, [file |-> file, args |-> args])]
    /\ UNCHANGED <<live, heap, clients, transports, pc, built, wire, form, ctxDone>>

---------------------------------------------------------------------------
(* MakeRequest: the target type, the body and the request. *)

Keys == SeqToSet(KeyOrder)

\* a byte slice: nil, or the bytes of a string
NilBytes == [nil |-> TRUE, b |-> <<>>]

\* the bytes of a string; the empty string has no bytes to point at
StringToBytes(str) == IF str = <<>> THEN NilBytes ELSE [nil |-> FALSE, b |-> str]

\* json.Marshal of a map or a slice: never empty ("{}", "[]" at the least)
Marshal(str) == [nil |-> FALSE, b |-> <<str>>]

\* the kinds the switch over val[0] of a []interface{} has a case for
ElementKinds == {"string", "bool", "number"}

\* case []interface{}: an element whose type is not the type of val[0] fails
\* the type assertion element.(T), which panics
FlattenPanics(v) ==
    /\ v.kind = "array"
    /\ v.val # <<>>
    /\ v.val[1].kind \in ElementKinds
    /\ \E i \in 1..Len(v.val) : v.val[i].kind # v.val[1].kind

\* the url.Values of one Data entry: nothing for a kind the switch leaves out
ValuesOf(v) ==
    CASE v.kind \in {"string", "number", "bool"} -> <<v.val>>
      [] v.kind = "strarray" -> v.val
      [] v.kind = "array" ->
            IF v.val # <<>> /\ v.val[1].kind \in ElementKinds
            THEN [i \in 1..Len(v.val) |-> v.val[i].val]
            ELSE <<>>
      [] OTHER -> <<>>

\* changeMapToURLValues does not return
changeMapToURLValuesPanics(data) == \E k \in DOMAIN data : FlattenPanics(data[k])

changeMapToURLValues(data) ==
    [k \in {x \in DOMAIN data : ValuesOf(data[x]) # <<>>} |-> ValuesOf(data[k])]

\* the key=value pairs of url.Values, keys in sorted order
RECURSIVE PairsOf(_, _)
PairsOf(values, keys) ==
    IF keys = <<>> THEN <<>>
    ELSE (IF Head(keys) \in DOMAIN values
          THEN [i \in 1..Len(values[Head(keys)]) |-> <<Head(keys), values[Head(keys)][i]>>]
          ELSE <<>>) \o PairsOf(values, Tail(keys))

\* url.Values.Encode: "" for no pair, else the query string of the pairs
Encode(values) ==
    IF PairsOf(values, KeyOrder) = <<>> THEN <<>> ELSE <<QStr(PairsOf(values, KeyOrder))>>

\* the names of the registry whose content type is ct
Matching(ct) == {k \in TypeNames : Types[k] = ct}

\* the TargetType after the resolution at the head of MakeRequest; pick is
\* the name the range over Types visits last among those that match
ResolveTargetType(s, h, pick) ==
    IF s.ForceType \in {TypeJSON, TypeForm, TypeXML, TypeText, TypeMultipart}
    THEN s.ForceType
    ELSE IF Matching(Get(h, "Content-Type")) # {} THEN pick ELSE s.TargetType

Picks(s, h) ==
    IF s.ForceType \in {TypeJSON, TypeForm, TypeXML, TypeText, TypeMultipart}
       \/ Matching(Get(h, "Content-Type")) = {}
    THEN {""}
    ELSE Matching(Get(h, "Content-Type"))

\* the orders in which a range over a map may visit its keys
KeyOrders ==
    {o \in [1..Len(KeyOrder) -> Keys] :
        \A i, j \in 1..Len(KeyOrder) : i # j => o[i] # o[j]}

\* a multipart body that begins with the files
MultipartParts_FilesFirst(s, d, h, order) ==
    [i \in 1..Len(s.FileData) |->
        [part |-> "file", name |-> s.FileData[i].Fieldname, content |-> s.FileData[i]]]
    \o (IF s.BounceToRawString
        THEN <<[part |-> "raw",
                name |-> IF Get(h, "data_fieldname") = "" THEN "data" ELSE Get(h, "data_fieldname"),
                content |-> s.RawString]>>
        ELSE <<>>)
    \o [i \in 1..Len(PairsOf(changeMapToURLValues(d), order)) |->
            [part |-> "field",
             name |-> PairsOf(changeMapToURLValues(d), order)[i][1],
             content |-> PairsOf(changeMapToURLValues(d), order)[i][2]]]
    \o (IF s.SliceData # <<>>
        THEN <<[part |-> "json",
                name |-> IF Get(h, "json_fieldname") = "" THEN "data" ELSE Get(h, "json_fieldname"),
                content |-> JArr(s.SliceData)]>>
        ELSE <<>>)

\* the parts of the multipart body, in the order they are written; order is
\* the order in which the range over the form data visits its keys
MultipartParts(s, d, h, order) ==
    (IF s.BounceToRawString
     THEN <<[part |-> "raw",
             name |-> IF Get(h, "data_fieldname") = "" THEN "data" ELSE Get(h, "data_fieldname"),
             content |-> s.RawString]>>
     ELSE <<>>)
    \o [i \in 1..Len(PairsOf(changeMapToURLValues(d), order)) |->
            [part |-> "field",
             name |-> PairsOf(changeMapToURLValues(d), order)[i][1],
             content |-> PairsOf(changeMapToURLValues(d), order)[i][2]]]
    \o (IF s.SliceData # <<>>
        THEN <<[part |-> "json",
                name |-> IF Get(h, "json_fieldname") = "" THEN "data" ELSE Get(h, "json_fieldname"),
                content |-> JArr(s.SliceData)]>>
        ELSE <<>>)
    \o [i \in 1..Len(s.FileData) |->
            [part |-> "file", name |-> s.FileData[i].Fieldname, content |-> s.FileData[i]]]

\* no body: contentReader and contentType stay unset
NoBody == [err |-> "none", hasBody |-> FALSE, body |-> <<>>, contentType |-> ""]

\* contentReader reads bytes, contentType is ct
SomeBody(bytes, ct) == [err |-> "none", hasBody |-> TRUE, body |-> bytes.b, contentType |-> ct]

\* a JSON branch that looks at Data before it looks at BounceToRawString
EncodeJSON_DataFirst(s, d) ==
    LET contentJson ==
            IF DOMAIN d # {} THEN Marshal(JObj(d))
            ELSE IF s.BounceToRawString THEN StringToBytes(s.RawString)
            ELSE IF s.SliceData # <<>> THEN Marshal(JArr(s.SliceData))
            ELSE NilBytes
    IN  IF ~contentJson.nil THEN SomeBody(contentJson, "application/json") ELSE NoBody

\* case TypeJSON
EncodeJSON(s, d) ==
    LET contentJson ==
            IF s.BounceToRawString THEN StringToBytes(s.RawString)
            ELSE IF DOMAIN d # {} THEN Marshal(JObj(d))
            ELSE IF s.SliceData # <<>> THEN Marshal(JArr(s.SliceData))
            ELSE NilBytes
    IN  IF ~contentJson.nil THEN SomeBody(contentJson, "application/json") ELSE NoBody

\* case TypeForm, TypeFormData, TypeUrlencoded
EncodeForm(s, d) ==
    LET contentForm ==
            IF s.BounceToRawString \/ s.SliceData # <<>>
            THEN StringToBytes(s.RawString)
            ELSE StringToBytes(Encode(changeMapToURLValues(d)))
    IN  IF contentForm.b # <<>>
        THEN SomeBody(contentForm, "application/x-www-form-urlencoded")
        ELSE NoBody

\* the raw string as the body, whether it holds a byte or not
EncodeRaw_Always(s, ct) == SomeBody([nil |-> FALSE, b |-> s.RawString], ct)

\* case TypeText, case TypeXML: the raw string, when it is not empty
EncodeRaw(s, ct) ==
    IF s.RawString # <<>> THEN SomeBody([nil |-> FALSE, b |-> s.RawString], ct) ELSE NoBody

\* case TypeMultipart: the writer is closed, and the content type read, only
\* when a part was written.  mw is what multipart.NewWriter and the range
\* over the form data bring to the call: the boundary the writer draws and
\* the order of the keys
EncodeMultipart(s, d, h, mw) ==
    IF s.BounceToRawString \/ DOMAIN d # {} \/ s.SliceData # <<>> \/ s.FileData # <<>>
    THEN SomeBody(Marshal([kind |-> "multipart",
                           val |-> [boundary |-> mw.boundary,
                                    parts |-> MultipartParts(s, d, h, mw.order)]]),
                  "multipart/form-data; boundary=" \o mw.boundary)
    ELSE NoBody

\* the switch over TargetType: [err, hasBody, body, contentType]
EncodeBody(s, d, h, mw) ==
    CASE s.TargetType = TypeJSON -> EncodeJSON(s, d)
      [] s.TargetType \in {TypeForm, TypeFormData, TypeUrlencoded} -> EncodeForm(s, d)
      [] s.TargetType = TypeText -> EncodeRaw(s, "text/plain")
      [] s.TargetType = TypeXML -> EncodeRaw(s, "application/xml")
      [] s.TargetType = TypeMultipart -> EncodeMultipart(s, d, h, mw)
      [] s.TargetType = "" -> NoBody
      [] OTHER -> [NoBody EXCEPT !.err = "targetType"]

\* a MakeRequest that leaves the raw-string bounce as the Send calls left it
MakeRequestAgent_NoBounce(s, d, h, pick) ==
    [s EXCEPT !.TargetType = ResolveTargetType(s, h, pick)]

\* the agent after MakeRequest: the target type and the raw-string bounce
\* are written before anything can fail
MakeRequestAgent(s, d, h, pick) ==
    [s EXCEPT !.TargetType = ResolveTargetType(s, h, pick),
              !.BounceToRawString = @ \/ (DOMAIN d # {} /\ s.SliceData # <<>>)]

\* MakeRequest panics: it has a method and reaches changeMapToURLValues, in
\* the form branch or in the multipart branch, with a Data that fails there
MakeRequestPanics(s, d, h, pick) ==
    LET s2 == MakeRequestAgent(s, d, h, pick)
    IN  /\ s2.Method # ""
        /\ \/ /\ s2.TargetType \in {TypeForm, TypeFormData, TypeUrlencoded}
              /\ ~(s2.BounceToRawString \/ s2.SliceData # <<>>)
           \/ /\ s2.TargetType = TypeMultipart
              /\ DOMAIN d # {}
        /\ changeMapToURLValuesPanics(d)

\* a request header that takes the computed content type over the caller's
RequestHeader_Override(h, contentType) ==
    IF contentType # "" THEN HSet(h, "Content-Type", contentType) ELSE h

\* the header of the request: the headers of the agent, and the computed
\* content type when the caller has set none
RequestHeader(h, contentType) ==
    IF contentType # "" /\ Get(h, "Content-Type") = ""
    THEN HSet(h, "Content-Type", contentType)
    ELSE h

\* strings.EqualFold(k, "Host")
EqualFoldHost(k) == k \in {"Host", "host", "HOST"}

\* a req.Host that takes the last value of the Host header
RequestHost_Last(h, url) ==
    IF \E k \in DOMAIN h : EqualFoldHost(k) /\ h[k] # <<>>
    THEN LET k == CHOOSE x \in DOMAIN h : EqualFoldHost(x) /\ h[x] # <<>>
         IN  h[k][Len(h[k])]
    ELSE url

\* req.Host: the host of the url (http.NewRequest), or vals[0] of a header
\* whose name is Host in any letter case
RequestHost(h, url) ==
    IF \E k \in DOMAIN h : EqualFoldHost(k) /\ h[k] # <<>>
    THEN LET k == CHOOSE x \in DOMAIN h : EqualFoldHost(x) /\ h[x] # <<>>
         IN  h[k][1]
    ELSE url

\* a MakeRequest that encodes the body before the raw-string bounce of a
\* mixed map and slice is written
MakeRequestOf_EncodeBefore(s, d, h, pick, mw) ==
    LET s2 == MakeRequestAgent(s, d, h, pick)
        enc == EncodeBody([s EXCEPT !.TargetType = s2.TargetType], d, h, mw)
    IN  IF s2.Method = "" THEN [NoReq EXCEPT !.err = "method"]
        ELSE IF enc.err # "none" THEN [NoReq EXCEPT !.err = enc.err]
        ELSE [err |-> "none", hasBody |-> enc.hasBody, body |-> enc.body,
              contentType |-> enc.contentType,
              Header |-> RequestHeader(h, enc.contentType),
              Method |-> s2.Method, Url |-> s2.Url, branch |-> s2.TargetType,
              Host |-> RequestHost(h, s2.Url)]

\* the request MakeRequest returns, or its error
MakeRequestOf(s, d, h, pick, mw) ==
    LET s2 == MakeRequestAgent(s, d, h, pick)
        enc == EncodeBody(s2, d, h, mw)
    IN  IF s2.Method = "" THEN [NoReq EXCEPT !.err = "method"]
        ELSE IF enc.err # "none" THEN [NoReq EXCEPT !.err = enc.err]
        ELSE [err |-> "none", hasBody |-> enc.hasBody, body |-> enc.body,
              contentType |-> enc.contentType,
              Header |-> RequestHeader(h, enc.contentType),
              Method |-> s2.Method, Url |-> s2.Url, branch |-> s2.TargetType,
              Host |-> RequestHost(h, s2.Url)]

\* what a call of MakeRequest leaves behind: the request, the agent before
\* and after the call, and the Data and Header maps it read; again says that
\* the call before was a MakeRequest too, of the agent and the maps as that
\* call left them, and prev is the request of that call
BuiltOf(b, s, d, h, pick, mw) ==
    [made |-> TRUE, req |-> MakeRequestOf(s, d, h, pick, mw),
     pre |-> s, s |-> MakeRequestAgent(s, d, h, pick), d |-> d, h |-> h,
     again |-> (b.made /\ b.s = s /\ b.d = d /\ b.h = h), prev |-> b.req]

Boundaries == {"x", "y"}

\* the multipart writers a call of MakeRequest may get
Writers == {[boundary |-> b, order |-> o] : b \in Boundaries, o \in KeyOrders}

\* the writer of a request without a multipart body
NoWriter == [boundary |-> "x", order |-> KeyOrder]

\* MakeRequest called on its own (as AsCurlCommand does)
MakeRequest(a, pick, mw) ==
    /\ a \in live /\ pc[a] = "idle"
    /\ pick \in Picks(sa[a], Header(a))
    /\ sa' = [sa EXCEPT ![a] = MakeRequestAgent(@, Data(a), Header(a), pick)]
    /\ IF MakeRequestPanics(sa[a], Data(a), Header(a), pick)
       THEN /\ pc' = [pc EXCEPT ![a] = "panic"]
            /\ UNCHANGED built
       ELSE /\ built' = [built EXCEPT ![a] =
                            BuiltOf(built[a], sa[a], Data(a), Header(a), pick, mw)]
            /\ UNCHANGED pc
    /\ UNCHANGED <<live, heap, clients, transports, run, wire, form, ctxDone>>

---------------------------------------------------------------------------
(* Clone, and the client and transport of an agent. *)

cloneMapArray(old) == [k \in DOMAIN old |-> [i \in 1..Len(old[k]) |-> old[k][i]]]

shallowCopyData(old) == [k \in DOMAIN old |-> old[k]]

shallowCopyDataSlice(old) == [i \in 1..Len(old) |-> old[i]]

shallowCopyFileArray(old) == [i \in 1..Len(old) |-> old[i]]

shallowCopyCookies(old) == [i \in 1..Len(old) |-> old[i]]

shallowCopyErrors(old) == [i \in 1..Len(old) |-> old[i]]

copyRetryable(old) ==
    [old EXCEPT !.RetryableStatus = [i \in 1..Len(old.RetryableStatus) |-> old.RetryableStatus[i]]]

\* a clone that takes the Data map of s itself, not a copy of it
CloneOf_SharedData(s, header, data, query) ==
    [Url |-> s.Url, Method |-> s.Method, Header |-> header,
     TargetType |-> s.TargetType, ForceType |-> s.ForceType, Data |-> s.Data,
     SliceData |-> shallowCopyDataSlice(s.SliceData), QueryData |-> query,
     FileData |-> shallowCopyFileArray(s.FileData),
     BounceToRawString |-> s.BounceToRawString, RawString |-> s.RawString,
     Client |-> s.Client, Transport |-> s.Transport,
     Cookies |-> shallowCopyCookies(s.Cookies),
     Errors |-> shallowCopyErrors(s.Errors),
     Retryable |-> copyRetryable(s.Retryable),
     DoNotClearSuperAgent |-> TRUE, isClone |-> TRUE, ctx |-> s.ctx]

\* the clone of s; header, data and query are the addresses of its new maps
CloneOf(s, header, data, query) ==
    [Url |-> s.Url, Method |-> s.Method, Header |-> header,
     TargetType |-> s.TargetType, ForceType |-> s.ForceType, Data |-> data,
     SliceData |-> shallowCopyDataSlice(s.SliceData), QueryData |-> query,
     FileData |-> shallowCopyFileArray(s.FileData),
     BounceToRawString |-> s.BounceToRawString, RawString |-> s.RawString,
     Client |-> s.Client, Transport |-> s.Transport,
     Cookies |-> shallowCopyCookies(s.Cookies),
     Errors |-> shallowCopyErrors(s.Errors),
     Retryable |-> copyRetryable(s.Retryable),
     DoNotClearSuperAgent |-> TRUE, isClone |-> TRUE, ctx |-> s.ctx]

\* the addresses Clone gives the clone's Header, Data and QueryData
CloneAddrs(s) ==
    [Header |-> NthFree(FreeAddrs, 1), Data |-> NthFree(FreeAddrs, 2),
     QueryData |-> NthFree(FreeAddrs, 3)]

\* the heap after Clone: the new maps hold copies
CloneHeap(s, c) ==
    [x \in MapAddrs |->
        IF x \in Refs(s) THEN heap[x]
        ELSE IF x = c.Header THEN cloneMapArray(heap[s.Header])
        ELSE IF x = c.Data THEN shallowCopyData(heap[s.Data])
        ELSE IF x = c.QueryData THEN cloneMapArray(heap[s.QueryData])
        ELSE heap[x]]

Clone(a) ==
    /\ a \in live /\ pc[a] = "idle"
    /\ Other(a) \notin live
    /\ LET ad == CloneAddrs(sa[a])
           c == CloneOf(sa[a], ad.Header, ad.Data, ad.QueryData)
       IN  /\ sa' = [sa EXCEPT ![Other(a)] = c]
           /\ heap' = CloneHeap(sa[a], c)
    /\ live' = live \cup {Other(a)}
    /\ UNCHANGED <<clients, transports, pc, run, built, wire, form, ctxDone>>

\* &http.Transport{}: no proxy, no timeouts
NoTransport == [Proxy |-> "", TLSHandshakeTimeout |-> ""]

ClientAddrs == 1..4

TransAddrs == 1..8

\* a new http.Transport / http.Client: an address nothing points at
NewTransport ==
    CHOOSE x \in TransAddrs :
        /\ x \notin {sa[o].Transport : o \in live} \cup {clients[c] : c \in ClientAddrs}
        /\ \A y \in TransAddrs :
              y \notin {sa[o].Transport : o \in live} \cup {clients[c] : c \in ClientAddrs}
                 => x <= y

NewClient ==
    CHOOSE x \in ClientAddrs :
        /\ x \notin {sa[o].Client : o \in live}
        /\ \A y \in ClientAddrs : y \notin {sa[o].Client : o \in live} => x <= y

\* the transport address of s after safeModifyTransport
safeModifyTransport(s) == IF s.isClone THEN NewTransport ELSE s.Transport

\* the client address of s after safeModifyHttpClient
safeModifyHttpClient(s) == IF s.isClone THEN NewClient ELSE s.Client

\* Proxy(proxyUrl) with a url that parses ("": no proxy)
Proxy(a, proxyUrl) ==
    /\ Idle(a)
    /\ LET tr == safeModifyTransport(sa[a])
       IN  /\ sa' = [sa EXCEPT ![a].Transport = tr]
           /\ transports' = [transports EXCEPT
                                ![tr] = [transports[sa[a].Transport] EXCEPT !.Proxy = proxyUrl]]
    /\ run' = Called(a)
    /\ UNCHANGED <<live, heap, clients, pc, built, wire, form, ctxDone>>

Timeout(a) ==
    /\ Idle(a)
    /\ LET cl == safeModifyHttpClient(sa[a])
       IN  /\ sa' = [sa EXCEPT ![a].Client = cl]
           /\ clients' = [clients EXCEPT ![cl] = clients[sa[a].Client]]
    /\ run' = Called(a)
    /\ UNCHANGED <<live, heap, transports, pc, built, wire, form, ctxDone>>

\* Timeouts(timeouts): the client is replaced on a clone, and the timeouts
\* are written to the http.Transport the client points at, if it has one
Timeouts(a, timeouts) ==
    /\ Idle(a)
    /\ LET cl == safeModifyHttpClient(sa[a])
           transport == clients[sa[a].Client]
       IN  /\ sa' = [sa EXCEPT ![a].Client = cl]
           /\ clients' = [clients EXCEPT ![cl] = transport]
           /\ IF transport = 0
              THEN UNCHANGED transports
              ELSE transports' = [transports EXCEPT
                                     ![transport].TLSHandshakeTimeout = timeouts]
    /\ run' = Called(a)
    /\ UNCHANGED <<live, heap, pc, built, wire, form, ctxDone>>

---------------------------------------------------------------------------
(* EndBytes: the retry loop around getResponseBytes. *)

\* what one call of getResponseBytes came to: a network error, a response
\* with a status, or a return before the network was reached
NetError == [kind |-> "error", val |-> "network"]

\* Client.Do answers, then ioutil.ReadAll of the body fails
ReadError == [kind |-> "error", val |-> "read"]

Status(code) == [kind |-> "status", val |-> code]

NoAttempt == [kind |-> "errors", val |-> "none"]

Resp(status) == [kind |-> "resp", val |-> [StatusCode |-> status, RetryCount |-> ""]]

statusesContains(list, code) == \E i \in 1..Len(list) : list[i] = code

\* shouldRetry that retries on errors only, not on a status of the policy
shouldRetry_ErrorsOnly(s, resp, hasError) ==
    /\ s.Retryable.Enable
    /\ s.Retryable.Attempt < s.Retryable.RetryerCount
    /\ hasError

\* shouldRetry that allows a retry when Attempt has reached RetryerCount
shouldRetry_Inclusive(s, resp, hasError) ==
    /\ s.Retryable.Enable
    /\ s.Retryable.Attempt <= s.Retryable.RetryerCount
    /\ (hasError \/ statusesContains(s.Retryable.RetryableStatus, resp.val.StatusCode))

\* shouldRetry that retries on a status of the policy only, not on errors
shouldRetry_StatusOnly(s, resp, hasError) ==
    /\ s.Retryable.Enable
    /\ s.Retryable.Attempt < s.Retryable.RetryerCount
    /\ resp.kind = "resp"
    /\ statusesContains(s.Retryable.RetryableStatus, resp.val.StatusCode)

\* the condition of shouldRetry
shouldRetry(s, resp, hasError) ==
    /\ s.Retryable.Enable
    /\ s.Retryable.Attempt < s.Retryable.RetryerCount
    /\ (hasError \/ statusesContains(s.Retryable.RetryableStatus, resp.val.StatusCode))

\* EndBytes is called
EndBytes(a) ==
    /\ a \in live /\ pc[a] = "idle"
    /\ run[a].runs < MaxRuns
    /\ pc' = [pc EXCEPT ![a] = "attempt"]
    /\ run' = [run EXCEPT ![a] =
                  [NoRun EXCEPT !.calls = run[a].calls, !.runs = run[a].runs,
                                !.sent = run[a].sent, !.files = run[a].files,
                                !.policy0 = sa[a].Retryable,
                                !.errs0 = sa[a].Errors]]
    /\ UNCHANGED <<sa, live, heap, clients, transports, built, wire, form, ctxDone>>

\* getResponseBytes up to the swap of the transport: the check of Errors,
\* MakeRequest, Client.Transport = Transport
GetResponseBytes(a, pick, mw) ==
    /\ a \in live /\ pc[a] = "attempt"
    /\ pick \in Picks(sa[a], Header(a))
    /\ LET s == sa[a]
           req == MakeRequestOf(s, Data(a), Header(a), pick, mw)
           made == MakeRequestAgent(s, Data(a), Header(a), pick)
       IN  IF s.Errors # <<>>
           THEN /\ run' = [run EXCEPT ![a].iters = @ + 1, ![a].res = Nil,
                                      ![a].errs = s.Errors,
                                      ![a].log = Append(@, NoAttempt)]
                /\ pc' = [pc EXCEPT ![a] = "check"]
                /\ UNCHANGED <<sa, clients, built>>
           ELSE IF MakeRequestPanics(s, Data(a), Header(a), pick)
           THEN /\ sa' = [sa EXCEPT ![a] = made]
                /\ pc' = [pc EXCEPT ![a] = "panic"]
                /\ UNCHANGED <<run, clients, built>>
           ELSE IF req.err # "none"
           THEN /\ sa' = [sa EXCEPT ![a] = [made EXCEPT !.Errors = Append(@, req.err)]]
                /\ run' = [run EXCEPT ![a].iters = @ + 1, ![a].res = Nil,
                                      ![a].errs = <<req.err>>,
                                      ![a].log = Append(@, NoAttempt)]
                /\ pc' = [pc EXCEPT ![a] = "check"]
                /\ UNCHANGED <<clients, built>>
           ELSE /\ sa' = [sa EXCEPT ![a] = made]
                /\ clients' = [clients EXCEPT ![s.Client] = s.Transport]
                /\ built' = [built EXCEPT ![a] = BuiltOf(built[a], s, Data(a), Header(a), pick, mw)]
                /\ run' = [run EXCEPT ![a].iters = @ + 1]
                /\ pc' = [pc EXCEPT ![a] = "do"]
    /\ UNCHANGED <<live, heap, transports, wire, form, ctxDone>>

\* what Client.Do returns for a request made by s when the server would give
\* answer: the request carries s.ctx if there is one (req.WithContext), and
\* net/http fails a request whose context is done
DoOutcome(s, done, answer) ==
    IF s.ctx # "nil" /\ done THEN NetError ELSE answer

\* (a failed read of the body that returns the errors of the agent, to which
\* nothing was appended)
ReadFailure_AgentErrors(s) == s.Errors

\* the errors getResponseBytes returns when the body cannot be read:
\* []error{err}, and s.Errors is left as it is
ReadFailure(s) == <<"read">>

\* the rest of getResponseBytes: Client.Do and the answer of the network,
\* an error or a response with a status
ClientDo(a, answer) ==
    LET outcome == DoOutcome(sa[a], ctxDone, answer) IN
    /\ a \in live /\ pc[a] = "do"
    /\ wire' = wire \cup {[agent |-> a, used |-> clients[sa[a].Client],
                            own |-> sa[a].Transport]}
    /\ IF outcome = NetError
       THEN /\ sa' = [sa EXCEPT ![a].Errors = Append(@, "network")]
            /\ run' = [run EXCEPT ![a].netCalls = @ + 1, ![a].res = Nil,
                                  ![a].errs = Append(sa[a].Errors, "network"),
                                  ![a].log = Append(@, outcome)]
       ELSE IF outcome = ReadError
       THEN /\ sa' = sa
            /\ run' = [run EXCEPT ![a].netCalls = @ + 1, ![a].res = Nil,
                                  ![a].errs = ReadFailure(sa[a]),
                                  ![a].log = Append(@, outcome)]
       ELSE /\ sa' = sa
            /\ run' = [run EXCEPT ![a].netCalls = @ + 1, ![a].res = Resp(outcome.val),
                                  ![a].errs = <<>>,
                                  ![a].log = Append(@, outcome)]
    /\ pc' = [pc EXCEPT ![a] = "check"]
    /\ UNCHANGED <<live, heap, clients, transports, built, form, ctxDone>>

\* a Retry-Count that counts the attempts, the first one included
RetryCountHeader_Attempts(s) == Itoa(s.Retryable.Attempt + 1)

\* the Retry-Count header EndBytes sets on the response it returns
RetryCountHeader(s) == Itoa(s.Retryable.Attempt)

\* a retry that keeps the errors of the attempt before it
ErrorsOnRetry_Kept(s) == s.Errors

\* s.Errors = nil, before the next turn of the loop
ErrorsOnRetry(s) == <<>>

\* a retry that leaves Attempt as it is
AttemptAfterRetry_Same(s) == s.Retryable.Attempt

\* s.Retryable.Attempt++
AttemptAfterRetry(s) == s.Retryable.Attempt + 1

\* shouldRetry and what the loop does with its answer
ShouldRetry(a) ==
    /\ a \in live /\ pc[a] = "check"
    /\ LET s == sa[a]
           resp == run[a].res
       IN  IF shouldRetry(s, resp, Len(run[a].errs) > 0)
           THEN /\ sa' = [sa EXCEPT ![a].Retryable.Attempt = AttemptAfterRetry(s),
                                    ![a].Errors = ErrorsOnRetry(s)]
                /\ run' = [run EXCEPT ![a].sleeps = @ + 1]
                /\ pc' = [pc EXCEPT ![a] = "attempt"]
           ELSE /\ sa' = sa
                /\ run' = [run EXCEPT
                              ![a].retResp =
                                  IF resp # Nil
                                  THEN [resp EXCEPT !.val.RetryCount = RetryCountHeader(s)]
                                  ELSE Nil,
                              ![a].retErrs = run[a].errs,
                              ![a].runs = @ + 1]
                /\ pc' = [pc EXCEPT ![a] = "idle"]
    /\ UNCHANGED <<live, heap, clients, transports, built, wire, form, ctxDone>>

---------------------------------------------------------------------------
(* The form body, byte by byte: changeMapToURLValues, url.Values.Encode and
   url.ParseQuery on strings that are sequences of characters. *)

\* a letter, and the characters the query syntax gives a meaning to
Chars == {"a", "&", "=", "%", "+", " "}

Unreserved == {"a"}

HexDigits == {"0", "1", "2", "3", "4", "5", "6", "7", "8", "9", "A", "B", "C", "D", "E", "F"}

\* the two hexadecimal digits of the byte of a character
Hex(c) ==
    CASE c = "&" -> <<"2", "6">>
      [] c = "=" -> <<"3", "D">>
      [] c = "%" -> <<"2", "5">>
      [] c = "+" -> <<"2", "B">>
      [] OTHER -> <<"2", "0">>

\* the character of two hexadecimal digits; "?" is a byte outside Chars
Unhex(hh) ==
    CASE hh = <<"2", "6">> -> "&"
      [] hh = <<"3", "D">> -> "="
      [] hh = <<"2", "5">> -> "%"
      [] hh = <<"2", "B">> -> "+"
      [] hh = <<"2", "0">> -> " "
      [] OTHER -> "?"

\* a QueryEscape that writes every character as it is
QueryEscape_Verbatim(str) == str

\* url.QueryEscape: a space is "+", every other character that is not
\* unreserved is "%" and its two hexadecimal digits
RECURSIVE QueryEscape(_)
QueryEscape(str) ==
    IF str = <<>> THEN <<>>
    ELSE (CASE Head(str) = " " -> <<"+">>
            [] Head(str) \in Unreserved -> <<Head(str)>>
            [] OTHER -> <<"%">> \o Hex(Head(str)))
         \o QueryEscape(Tail(str))

\* url.Values.Encode on the pairs of the values, keys sorted: key=value
\* joined by "&"
RECURSIVE EncodePairs(_)
EncodePairs(pairs) ==
    IF pairs = <<>> THEN <<>>
    ELSE QueryEscape(Head(pairs)[1]) \o <<"=">> \o QueryEscape(Head(pairs)[2])
         \o (IF Tail(pairs) = <<>> THEN <<>> ELSE <<"&">> \o EncodePairs(Tail(pairs)))

\* strings.Cut(str, sep)
Cut(str, sep) ==
    IF \E i \in 1..Len(str) : str[i] = sep
    THEN LET i == CHOOSE x \in 1..Len(str) :
                      str[x] = sep /\ \A y \in 1..(x - 1) : str[y] # sep
         IN  [before |-> SubSeq(str, 1, i - 1), after |-> SubSeq(str, i + 1, Len(str))]
    ELSE [before |-> str, after |-> <<>>]

\* url.QueryUnescape fails on a "%" that two hexadecimal digits do not follow
EscapeError(str) ==
    \E i \in 1..Len(str) :
        /\ str[i] = "%"
        /\ ~(i + 2 <= Len(str) /\ str[i + 1] \in HexDigits /\ str[i + 2] \in HexDigits)

\* url.QueryUnescape of a string without escape error
RECURSIVE QueryUnescape(_)
QueryUnescape(str) ==
    IF str = <<>> THEN <<>>
    ELSE IF Head(str) = "%"
    THEN <<Unhex(SubSeq(str, 2, 3))>> \o QueryUnescape(SubSeq(str, 4, Len(str)))
    ELSE <<IF Head(str) = "+" THEN " " ELSE Head(str)>> \o QueryUnescape(Tail(str))

\* url.Values: no key, no error
NoValues == [err |-> FALSE, values |-> EmptyMap]

\* url.ParseQuery: the settings between "&", each cut at its first "="; an
\* empty setting is skipped, one that does not unescape is left out and
\* is the error
RECURSIVE ParseQuery(_, _)
ParseQuery(query, m) ==
    IF query = <<>> THEN m
    ELSE LET setting == Cut(query, "&").before
             rest == Cut(query, "&").after
             key == Cut(setting, "=").before
             value == Cut(setting, "=").after
         IN  IF setting = <<>> THEN ParseQuery(rest, m)
             ELSE IF EscapeError(key) \/ EscapeError(value)
             THEN ParseQuery(rest, [m EXCEPT !.err = TRUE])
             ELSE ParseQuery(rest, [m EXCEPT !.values =
                                       Add(@, QueryUnescape(key), QueryUnescape(value))])

\* the strings of at most MaxText characters
Texts == UNION {[1..n -> Chars] : n \in 0..MaxText}

\* the keys of a form, in the order of their bytes
FormKeyOrder == << <<"=">>, <<"a", "&">> >>

\* the Data maps that hold strings
FormMaps ==
    UNION {[K -> {JString(v) : v \in Texts}] : K \in SUBSET SeqToSet(FormKeyOrder)}

NoForm == [pc |-> "none", data |-> EmptyMap, body |-> NilBytes, parsed |-> NoValues]

\* the Form branch of MakeRequest on a Data map that holds strings
EncodeFormData ==
    /\ form.pc = "data"
    /\ form' = [form EXCEPT
                   !.pc = "encoded",
                   !.body = StringToBytes(
                                EncodePairs(PairsOf(changeMapToURLValues(form.data),
                                                    FormKeyOrder)))]
    /\ UNCHANGED <<sa, live, heap, clients, transports, pc, run, built, wire, ctxDone>>

\* the receiver parses the body
ParseBody ==
    /\ form.pc = "encoded"
    /\ form' = [form EXCEPT !.pc = "parsed", !.parsed = ParseQuery(form.body.b, NoValues)]
    /\ UNCHANGED <<sa, live, heap, clients, transports, pc, run, built, wire, ctxDone>>

---------------------------------------------------------------------------
(* The specifications. *)

Init ==
    /\ sa = [a \in Agents |-> New]
    /\ live = {"base"}
    /\ heap = [x \in MapAddrs |-> EmptyMap]
    /\ clients = [c \in ClientAddrs |-> 0]
    /\ transports = [x \in TransAddrs |-> NoTransport]
    /\ pc = [a \in Agents |-> "idle"]
    /\ run = [a \in Agents |-> NoRun]
    /\ built = [a \in Agents |-> NoBuilt]
    /\ wire = {}
    /\ form = NoForm
    /\ ctxDone = FALSE

\* the answers of the network
Outcomes == {NetError, Status(200), Status(500)}

\* the status lists handed to Retry: 999 is no status of net/http
StatusLists == {<<>>, <<500>>, <<999>>}

\* one agent: configuration, then EndBytes
NextRetry ==
    \/ Verb("base", "POST")
    \/ Type("base", "bogus")
    \/ \E n \in 0..MaxRetry, codes \in StatusLists : Retry("base", n, codes)
    \/ EndBytes("base")
    \/ \E p \in {""}, mw \in {NoWriter} : GetResponseBytes("base", p, mw)
    \/ \E o \in Outcomes : ClientDo("base", o)
    \/ ShouldRetry("base")

SpecRetry == Init /\ [][NextRetry]_vars

\* a step of the loop of EndBytes: every call the loop makes returns
LoopStep ==
    \/ \E p \in {""}, mw \in {NoWriter} : GetResponseBytes("base", p, mw)
    \/ \E o \in Outcomes \cup {ReadError} : ClientDo("base", o)
    \/ ShouldRetry("base")

\* the agent under a retry policy of any count, negative ones included
NextLoop ==
    \/ Verb("base", "POST")
    \/ Type("base", "bogus")
    \/ \E n \in -1..MaxRetry : Retry("base", n, <<500>>)
    \/ EndBytes("base")
    \/ LoopStep

\* the agent with a context that is cancelled at some moment; the server
\* answers every request that reaches it
NextCancel ==
    \/ Verb("base", "POST")
    \/ Context("base")
    \/ Cancel
    \/ \E n \in 0..MaxRetry, codes \in {<<>>, <<500>>} : Retry("base", n, codes)
    \/ EndBytes("base")
    \/ \E p \in {""}, mw \in {NoWriter} : GetResponseBytes("base", p, mw)
    \/ \E o \in {Status(200), Status(500)} : ClientDo("base", o)
    \/ ShouldRetry("base")

SpecCancel == Init /\ [][NextCancel]_vars

\* an EndBytes that goes on while it has a step to take
SpecRetryFair == Init /\ [][NextLoop]_vars /\ WF_vars(LoopStep)

\* the arguments of Send: strings by what they decode to, a struct, a slice,
\* an integer, a pointer to a struct and a nil pointer
Str(str) == [kind |-> "String", val |-> str]

ObjectStrings ==
    {JObj(EmptyMap), JObj([k \in {"a"} |-> JString("1")]),
     JObj([k \in {"a", "b"} |-> JString("2")])}

SendInputs ==
    {Str(o) : o \in ObjectStrings}
    \cup {Str(JArr(<<JNumber("1")>>)), Str(QStr(<<>>)), Str(QStr(<<<<"a", "3">>>>)),
          [kind |-> "Struct", val |-> JObj([k \in {"b"} |-> JString("4")])],
          [kind |-> "Slice", val |-> <<JNumber("5")>>],
          [kind |-> "Int", val |-> "7"],
          Ptr([kind |-> "Struct", val |-> JObj([k \in {"b"} |-> JString("4")])]),
          Ptr(Nil)}

\* the values of a Content-Type header set by the caller
ContentTypes == {"application/json", "text/plain", "text/html", "x/custom"}

\* one agent: a request is accumulated, then built; after MakeRequest the
\* caller goes on with a verb
NextBuild ==
    \/ \E m \in {"GET", "POST"} : Verb("base", m)
    \/ ~built["base"].made /\ \E t \in TypeNames : Type("base", t)
    \/ ~built["base"].made /\ \E ct \in ContentTypes : Set("base", "Content-Type", ct)
    \/ ~built["base"].made /\ \E c \in SendInputs : Send("base", c)
    \/ ~built["base"].made /\ SendFile("base", "bytes", <<>>)
    \/ \E p \in TypeNames \cup {""}, mw \in Writers : MakeRequest("base", p, mw)

SpecBuild == Init /\ [][NextBuild]_vars

\* the strings sent to one key: query strings of one and of two pairs, and
\* objects that hold a string, a number and a boolean
MergeInputs ==
    {Str(QStr(<<<<"a", "1">>>>)), Str(QStr(<<<<"a", "2">>>>)),
     Str(QStr(<<<<"a", "1">>, <<"a", "2">>>>)),
     Str(JObj([k \in {"a"} |-> JString("0")])),
     Str(JObj([k \in {"a"} |-> JNumber("5")])),
     Str(JObj([k \in {"a"} |-> JBool("true")]))}

\* JSON objects whose key a holds an array: of strings, of a string and a
\* number, of a null and a string, and an empty one
FlattenInputs ==
    {Str(JObj([k \in {"a"} |-> JList(q)])) :
        q \in {<<JString("x"), JString("y")>>, <<JString("x"), JNumber("1")>>,
               <<JNull, JString("x")>>, <<>>}}
    \cup {Str(JObj([k \in {"b"} |-> JNumber("2")]))}

\* one agent: objects with arrays are sent and the request is built under
\* any type
NextFlatten ==
    \/ Verb("base", "POST")
    \/ ~built["base"].made /\ \E t \in {TypeJSON, TypeForm, TypeMultipart} : Type("base", t)
    \/ ~built["base"].made /\ \E c \in FlattenInputs : Send("base", c)
    \/ \E mw \in Writers : MakeRequest("base", "", mw)

SpecFlatten == Init /\ [][NextFlatten]_vars

\* the header names and values of the caller
HeaderNames == {"host", "Host", "X-A"}

HeaderValues == {"h1", "h2"}

\* one agent: headers are set and added, and the request is built
NextHeader ==
    \/ Verb("base", "POST")
    \/ ~built["base"].made /\ \E k \in HeaderNames, v \in HeaderValues : Set("base", k, v)
    \/ ~built["base"].made /\ \E k \in HeaderNames, v \in HeaderValues : AppendHeader("base", k, v)
    \/ MakeRequest("base", "", NoWriter)

SpecHeader == Init /\ [][NextHeader]_vars

\* an agent that has sent requests, and its clone: client and transport
\* settings are changed on either
NextSettings ==
    \/ Verb("base", "POST")
    \/ EndBytes("base")
    \/ GetResponseBytes("base", "", NoWriter)
    \/ ClientDo("base", Status(200))
    \/ ShouldRetry("base")
    \/ Clone("base")
    \/ \E a \in Agents : Proxy(a, "http://p")
    \/ \E a \in Agents : Timeout(a)
    \/ \E a \in Agents : Timeouts(a, "1s")

SpecSettings == Init /\ [][NextSettings]_vars

\* what one request accumulates, one call of each kind: an object, a slice
\* and a string that is no JSON and no query string
VerbInputs ==
    {Str(JObj([k \in {"a"} |-> JString("1")])),
     [kind |-> "Slice", val |-> <<JNumber("5")>>],
     Str(BadStr("t"))}

\* an agent accumulates a request of every kind of data and is cloned; then
\* verbs begin the next request on the agent and on the clone, and the clone
\* accumulates further.  Nothing is built and nothing is sent
NextVerb ==
    \/ \E a \in Agents, m \in {"GET", "POST"} : Verb(a, m)
    \/ Clone("base")
    \/ "clone" \notin live /\ Set("base", "X-A", "h1")
    \/ "clone" \notin live /\ \E t \in {"form", "bogus"} : Type("base", t)
    \/ "clone" \notin live /\ Retry("base", 1, <<500>>)
    \/ "clone" \notin live /\ AddCookie("base", "c")
    \/ "clone" \notin live /\ Param("base", "a", "1")
    \/ "clone" \notin live /\ SendFile("base", "bytes", <<>>)
    \/ "clone" \notin live /\ \E c \in VerbInputs : Send("base", c)
    \/ Type("clone", "bogus")
    \/ Send("clone", Str(JObj([k \in {"b"} |-> JString("2")])))

SpecVerb == Init /\ [][NextVerb]_vars

\* what is sent before and after the bounce: objects (the empty one
\* bounces), an array, a query string, a string no decoder takes, a struct
\* and a slice
RawInputs ==
    {Str(JObj(EmptyMap)), Str(JObj([k \in {"a"} |-> JString("1")])),
     Str(JArr(<<JNumber("1")>>)), Str(QStr(<<<<"a", "3">>>>)), Str(BadStr("t")),
     [kind |-> "Struct", val |-> JObj([k \in {"b"} |-> JString("4")])],
     [kind |-> "Slice", val |-> <<JNumber("5")>>]}

\* one agent: the calls of a request in any order, MakeRequest among them
NextRaw ==
    \/ \E m \in {"GET", "POST"} : Verb("base", m)
    \/ \E c \in RawInputs : Send("base", c)
    \/ Param("base", "a", "1")
    \/ Set("base", "Content-Type", "text/plain")
    \/ Type("base", "form")
    \/ SendFile("base", "bytes", <<>>)
    \/ \E p \in TypeNames \cup {""} : MakeRequest("base", p, NoWriter)

SpecRaw == Init /\ [][NextRaw]_vars

\* query strings: without a pair, of one key, of two keys in both orders,
\* and of one key with two and with three values
QueryStrings ==
    {QStr(ps) : ps \in {<<>>, <<<<"a", "1">>>>, <<<<"a", "">>>>,
                        <<<<"a", "1">>, <<"b", "2">>>>, <<<<"b", "2">>, <<"a", "1">>>>,
                        <<<<"a", "1">>, <<"a", "1">>>>, <<<<"a", "1">>, <<"a", "2">>>>,
                        <<<<"a", "1">>, <<"b", "2">>, <<"a", "3">>>>,
                        <<<<"a", "1">>, <<"a", "2">>, <<"a", "3">>>>}}

\* one agent: query strings are sent, then the request is built
NextQuery ==
    \/ \E m \in {"GET", "POST"} : Verb("base", m)
    \/ ~built["base"].made /\ \E q \in QueryStrings : Send("base", Str(q))
    \/ MakeRequest("base", "", NoWriter)

SpecQuery == Init /\ [][NextQuery]_vars

\* what a chain sends: an object and a query string as strings, a struct and
\* a slice
InsertInputs ==
    {Str(JObj([k \in {"a"} |-> JString("1")])), Str(QStr(<<<<"a", "3">>>>)),
     [kind |-> "Struct", val |-> JObj([k \in {"b"} |-> JString("4")])],
     [kind |-> "Slice", val |-> <<JNumber("5")>>]}

\* one agent: a chain of Send calls with MakeRequest (or AsCurlCommand, which
\* calls it) at any place of the chain
NextInsert ==
    \/ \E m \in {"GET", "POST"} : Verb("base", m)
    \/ \E c \in InsertInputs : Send("base", c)
    \/ MakeRequest("base", "", NoWriter)

SpecInsert == Init /\ [][NextInsert]_vars

\* one agent: strings are sent, all to the key a
NextMerge ==
    \/ Verb("base", "POST")
    \/ \E c \in MergeInputs : Send("base", c)

SpecMerge == Init /\ [][NextMerge]_vars

\* the files handed to SendFile: bytes, a path that can be read and one that
\* cannot
FileInputs == {"bytes", "path", "missing"}

\* the optional arguments of SendFile: none, the field name
\* "file", a field name of the caller (one that looks like a generated one),
\* "file" with skipFileNumbering, a MIME type, the empty MIME type and a
\* blank one
FileArgs ==
    {<<>>, <<"", "file">>, <<"", "file2">>, <<"", "file", TRUE>>,
     <<"", "", FALSE, "text/plain">>, <<"", "", FALSE, "">>, <<"", "", FALSE, " ">>}

\* one agent: the files of one request
NextFile ==
    \/ Verb("base", "POST")
    \/ \E file \in FileInputs, args \in FileArgs : SendFile("base", file, args)

SpecFile == Init /\ [][NextFile]_vars

\* an agent and its clone, each used for one request after the other: a
\* verb, Send calls of a JSON object, MakeRequest, and the next verb
NextReuse ==
    \/ \E a \in Agents, m \in {"GET", "POST"} : Verb(a, m)
    \/ SetDoNotClearSuperAgent("base", TRUE)
    \/ Clone("base")
    \/ \E a \in Agents : Send(a, Str(JObj([k \in {"a"} |-> JString("1")])))
    \/ \E a \in Agents : MakeRequest(a, "", NoWriter)

SpecReuse == Init /\ [][NextReuse]_vars

\* a Data map of strings is encoded as a form body, and the body is parsed
InitForm ==
    /\ sa = [a \in Agents |-> New]
    /\ live = {"base"}
    /\ heap = [x \in MapAddrs |-> EmptyMap]
    /\ clients = [c \in ClientAddrs |-> 0]
    /\ transports = [x \in TransAddrs |-> NoTransport]
    /\ pc = [a \in Agents |-> "idle"]
    /\ run = [a \in Agents |-> NoRun]
    /\ built = [a \in Agents |-> NoBuilt]
    /\ wire = {}
    /\ form \in {[NoForm EXCEPT !.pc = "data", !.data = m] : m \in FormMaps}
    /\ ctxDone = FALSE

NextForm ==
    \/ EncodeFormData
    \/ ParseBody

SpecForm == InitForm /\ [][NextForm]_vars

\* the calls the two agents have made together
CallsOfBoth == run["base"].calls + run["clone"].calls

\* two agents: accumulation calls on the base and on its clone, before and
\* after Clone, in any order
NextClone ==
    \/ Clone("base")
    \/ \E a \in Agents, c \in {Str(JObj([k \in {"a"} |-> JString("1")])),
                               Str(QStr(<<<<"a", "3">>>>)),
                               [kind |-> "Slice", val |-> <<JNumber("5")>>]} :
          CallsOfBoth < MaxCalls /\ Send(a, c)
    \/ \E a \in Agents : CallsOfBoth < MaxCalls /\ Query(a, Str(QStr(<<<<"a", "1">>>>)))
    \/ \E a \in Agents : CallsOfBoth < MaxCalls /\ Param(a, "b", "2")
    \/ \E a \in Agents : CallsOfBoth < MaxCalls /\ Set(a, "K", "v")
    \/ \E a \in Agents : CallsOfBoth < MaxCalls /\ AppendHeader(a, "K", "w")
    \/ \E a \in Agents : CallsOfBoth < MaxCalls /\ SendFile(a, "bytes", <<>>)
    \/ \E a \in Agents : CallsOfBoth < MaxCalls /\ AddCookie(a, "c")
    \/ \E a \in Agents, ty \in {TypeText, "bogus"} : CallsOfBoth < MaxCalls /\ Type(a, ty)
    \/ \E a \in Agents : CallsOfBoth < MaxCalls /\ Retry(a, 1, <<500>>)

SpecClone == Init /\ [][NextClone]_vars

\* two agents that run EndBytes at the same time: the steps of the two
\* calls interleave
NextConc ==
    \/ Verb("base", "POST")
    \/ Clone("base")
    \/ \E a \in Agents : Proxy(a, "http://p")
    \/ \E a \in Agents : Timeout(a)
    \/ \E a \in Agents : EndBytes(a)
    \/ \E a \in Agents : GetResponseBytes(a, "", NoWriter)
    \/ \E a \in Agents, o \in {NetError, Status(200)} : ClientDo(a, o)
    \/ \E a \in Agents : ShouldRetry(a)

SpecConc == Init /\ [][NextConc]_vars

---------------------------------------------------------------------------
(* The retry loop: C1 to C4. *)

\* the last EndBytes call of a has returned
Finished(a) == a \in live /\ pc[a] = "idle" /\ run[a].runs > 0

\* entry i of the log of a is a response whose status the policy retries
RetryableAt(a, i) ==
    /\ run[a].log[i].kind = "status"
    /\ statusesContains(run[a].policy0.RetryableStatus, run[a].log[i].val)

\* entry i of the log of a is a response, without error, whose status the
\* policy does not retry
FinalAt(a, i) ==
    /\ run[a].log[i].kind = "status"
    /\ ~statusesContains(run[a].policy0.RetryableStatus, run[a].log[i].val)

\* C1 (as claimed): when Errors is not empty at the call of EndBytes, the
\* call reaches the network not once and returns those errors, whatever the
\* retry policy is.
C1_ErrorsShortCircuit ==
    \A a \in live :
        run[a].errs0 # <<>> =>
            /\ run[a].netCalls = 0
            /\ Finished(a) => (run[a].retResp = Nil /\ run[a].retErrs = run[a].errs0)

\* C1: the case is reached: EndBytes called with recorded errors and a
\* retry policy that allows a retry.
C1_Witness ==
    /\ run["base"].errs0 # <<>>
    /\ run["base"].policy0.Enable
    /\ run["base"].policy0.RetryerCount >= 1
    /\ Finished("base")

C3_AtMostNAttempts ==
    \A a \in live :
        ( /\ run[a].policy0.Enable
          /\ run[a].policy0.Attempt = 0
          /\ run[a].policy0.RetryerCount >= 1 )
        => run[a].netCalls <= run[a].policy0.RetryerCount

\* C4 (as claimed): the Retry-Count of a returned response is the number of
\* attempts the loop made in this call.
C4_RetryCountIsAttempts ==
    \A a \in live :
        (Finished(a) /\ run[a].retResp # Nil) =>
            run[a].retResp.val.RetryCount = Itoa(run[a].iters)

\* C4 (amended): the Retry-Count of a returned response is the agent's Attempt
\* counter when the loop stops: its value at the call plus the number of
\* retries (sleeps) of this call, which is one less than the attempts made.
C4_RetryCountIsRetries ==
    \A a \in live :
        (Finished(a) /\ run[a].retResp # Nil) =>
            /\ run[a].retResp.val.RetryCount = Itoa(run[a].policy0.Attempt + run[a].sleeps)
            /\ run[a].iters = run[a].sleeps + 1

\* C4: a response returned after a retry, by a call that began with Attempt > 0
C4_Witness ==
    /\ Finished("base")
    /\ run["base"].retResp # Nil
    /\ run["base"].sleeps >= 1
    /\ run["base"].policy0.Attempt >= 1

---------------------------------------------------------------------------
(* Send and MakeRequest: C5, C8, C9, C10. *)

\* every Send of the request of a had a string that decodes as a JSON object
AllObjects(a) ==
    \A i \in 1..Len(run[a].sent) :
        run[a].sent[i].kind = "String" /\ run[a].sent[i].val.kind = "jsonobj"

\* the key-wise union of the objects sent, a later one written over an
\* earlier one
RECURSIVE UnionOf(_)
UnionOf(sent) ==
    IF sent = <<>> THEN EmptyMap
    ELSE Merge(UnionOf(SubSeq(sent, 1, Len(sent) - 1)), sent[Len(sent)].val.val)

\* C5 (as claimed): after Send calls of a fresh request that all had JSON
\* object strings, "{}" included at any place, Data is the key-wise union of
\* the objects, the last write winning.
C5_SendObjectsUnion ==
    \A a \in live : AllObjects(a) => Data(a) = UnionOf(run[a].sent)

\* the request MakeRequest built for a, when it built one
HasRequest(a) == a \in live /\ built[a].made /\ built[a].req.err = "none"

\* the content type of the encoding that wrote the body of req
CanonicalType(req) ==
    IF req.branch = TypeMultipart
    THEN Types[TypeMultipart] \o "; boundary=" \o req.body[1].val.boundary
    ELSE Types[req.branch]

\* C8 (as claimed): a request with a body has the content type of the
\* encoding that wrote the body as its Content-Type header, whatever the
\* forced type and the Content-Type header the caller set.
C8_ContentTypeIsCanonical ==
    \A a \in live :
        (HasRequest(a) /\ built[a].req.hasBody) =>
            Get(built[a].req.Header, "Content-Type") = CanonicalType(built[a].req)

\* C8 (amended): the computed content type of a request with a body is that
\* of the encoding that wrote the body; it is the Content-Type header of the
\* request when the caller has set none, and a Content-Type header the caller
\* has set is kept as it is.
C8_ContentTypeUnlessCallerSet ==
    \A a \in live :
        (HasRequest(a) /\ built[a].req.hasBody) =>
            /\ built[a].req.contentType = CanonicalType(built[a].req)
            /\ IF Get(built[a].h, "Content-Type") = ""
               THEN Get(built[a].req.Header, "Content-Type") = CanonicalType(built[a].req)
               ELSE built[a].req.Header = built[a].h

\* C8: a JSON body, forced, under the caller's Content-Type text/plain
C8_Witness ==
    /\ HasRequest("base")
    /\ built["base"].req.hasBody
    /\ built["base"].pre.ForceType = TypeJSON
    /\ built["base"].req.branch = TypeJSON
    /\ Get(built["base"].h, "Content-Type") = "text/plain"
    /\ Get(built["base"].req.Header, "Content-Type") = "text/plain"

\* C9 (as claimed): with a forced type of the registry, MakeRequest resolves
\* the target type to the encoding of that name, whatever the Content-Type
\* header and the target type before.
C9_ForcedTypeWins ==
    \A a \in live :
        (built[a].made /\ built[a].pre.ForceType \in TypeNames) =>
            /\ built[a].s.TargetType \in TypeNames
            /\ Types[built[a].s.TargetType] = Types[built[a].pre.ForceType]

\* the payload the switch over TargetType selects has no byte
PayloadEmpty(s, d) ==
    CASE s.TargetType = TypeJSON ->
            IF s.BounceToRawString THEN s.RawString = <<>>
            ELSE DOMAIN d = {} /\ s.SliceData = <<>>
      [] s.TargetType \in {TypeForm, TypeFormData, TypeUrlencoded} ->
            IF s.BounceToRawString \/ s.SliceData # <<>> THEN s.RawString = <<>>
            ELSE \A k \in DOMAIN d : ValuesOf(d[k]) = <<>>
      [] s.TargetType \in {TypeText, TypeXML} -> s.RawString = <<>>
      [] s.TargetType = TypeMultipart ->
            /\ ~s.BounceToRawString /\ DOMAIN d = {}
            /\ s.SliceData = <<>> /\ s.FileData = <<>>
      [] OTHER -> TRUE

\* C10: a request has a computed content type, and a body, only when the
\* body has a byte; when the selected payload is empty (JSON without data,
\* the raw string empty under the bounce, ...) there is no body and no
\* content type is set.
C10_BodyOnlyWithBytes ==
    \A a \in live :
        HasRequest(a) =>
            /\ built[a].req.hasBody => built[a].req.body # <<>>
            /\ built[a].req.contentType # "" => built[a].req.hasBody
            /\ PayloadEmpty(built[a].s, built[a].d) =>
                  /\ ~built[a].req.hasBody
                  /\ built[a].req.contentType = ""
                  /\ built[a].req.Header = built[a].h

\* C10: JSON under the bounce to the raw string, set by MakeRequest because
\* a map and a slice were sent, with an empty raw string: no body
C10_Witness ==
    /\ HasRequest("base")
    /\ built["base"].s.TargetType = TypeJSON
    /\ built["base"].s.BounceToRawString
    /\ built["base"].s.RawString = <<>>
    /\ ~built["base"].req.hasBody

---------------------------------------------------------------------------
(* Clone: C6, C7. *)

\* what agent o holds: its fields, the maps themselves in the place of
\* their addresses
Stores(o) ==
    [sa[o] EXCEPT !.Header = heap[sa[o].Header], !.Data = heap[sa[o].Data],
                  !.QueryData = heap[sa[o].QueryData]]

\* C6: Clone gives the clone the stores of the agent it is called on and
\* leaves the stores of that agent as they are; thereafter no call on one of
\* the two changes a store of the other, so each holds what its own calls
\* alone make of the stores it started with.
C6_CloneStoresApart ==
    [][ /\ \A a \in Agents :
             (Other(a) \in live /\ run'[a] # run[a]) =>
                 Stores(Other(a))' = Stores(Other(a))
        /\ live' # live =>
             /\ Stores("base")' = Stores("base")
             /\ Stores("clone")' = [Stores("base") EXCEPT !.DoNotClearSuperAgent = TRUE,
                                                          !.isClone = TRUE] ]_vars

\* C6: after Clone the base has sent data the clone has not, and the clone
\* has set a header the base has not
C6_Witness ==
    /\ live = Agents
    /\ run["clone"].calls >= 1
    /\ run["clone"].sent = <<>>
    /\ Data("base") # Data("clone")
    /\ Header("base") # Header("clone")

\* C7 (as claimed): every network attempt is carried out with the transport
\* of the agent that issued it.
C7_OwnTransport == \A w \in wire : w.used = w.own

---------------------------------------------------------------------------
(* MakeRequest twice: C11. *)

\* a has built a request twice in a row, nothing written to it in between
BuiltAgain(a) == a \in live /\ built[a].made /\ built[a].again

\* the parts of two multipart bodies are the same, whatever their order
SameParts(req, prev) ==
    LET p == req.body[1].val.parts
        q == prev.body[1].val.parts
        same(x, y) == x.part = y.part /\ x.name = y.name /\ x.content = y.content
    IN  /\ Len(p) = Len(q)
        /\ \A i \in 1..Len(p) : \E j \in 1..Len(q) : same(p[i], q[j])
        /\ \A j \in 1..Len(q) : \E i \in 1..Len(p) : same(p[i], q[j])

---------------------------------------------------------------------------
(* The stores at MakeRequest and in SendString: C12, C13. *)

\* MakeRequest found both Data and SliceData of a with entries
BuiltMixed(a) ==
    a \in live /\ built[a].made /\ DOMAIN built[a].d # {} /\ built[a].pre.SliceData # <<>>

\* C12: when Data and SliceData both hold entries as MakeRequest runs,
\* whatever the order and the kind of the Send calls that filled them,
\* BounceToRawString is true after the call, and a request built under JSON
\* or Form has the bytes of RawString as its body (no body when RawString is
\* empty), not the encoding of Data or of SliceData.
C12_MixedStoresBounce ==
    \A a \in live :
        BuiltMixed(a) =>
            /\ built[a].s.BounceToRawString
            /\ (built[a].req.err = "none"
                /\ built[a].req.branch \in {TypeJSON, TypeForm, TypeFormData, TypeUrlencoded})
               => /\ built[a].req.body = built[a].pre.RawString
                  /\ built[a].req.hasBody = (built[a].pre.RawString # <<>>)

\* C12: a JSON array string, then a struct, built under JSON: the body is the
\* text of the array string alone
C12_Witness ==
    /\ BuiltMixed("base")
    /\ ~built["base"].pre.BounceToRawString
    /\ run["base"].sent = <<Str(JArr(<<JNumber("1")>>)),
                            [kind |-> "Struct", val |-> JObj([k \in {"b"} |-> JString("4")])]>>
    /\ built["base"].req.branch = TypeJSON
    /\ built["base"].req.body = <<JArr(<<JNumber("1")>>)>>

\* the step is a Send of a with a string that decodes as a JSON object
SendsObject(a) ==
    /\ a \in live
    /\ Len(run'[a].sent) = Len(run[a].sent) + 1
    /\ run'[a].sent[Len(run'[a].sent)].kind = "String"
    /\ run'[a].sent[Len(run'[a].sent)].val.kind = "jsonobj"

\* C13: a Send of a JSON object string, on an agent that has not bounced to
\* the raw string, merges the keys of the object into Data and sets
\* BounceToRawString to true exactly when Data is empty after the merge: "{}"
\* sent first sets it and leaves Data empty, "{}" sent when Data holds a key
\* leaves it false.  On an agent that has bounced the call changes neither.
C13_BounceIffDataEmpty ==
    [][\A a \in Agents :
          SendsObject(a) =>
              IF sa[a].BounceToRawString
              THEN sa'[a].BounceToRawString /\ Data(a)' = Data(a)
              ELSE /\ Data(a)' = Merge(Data(a), run'[a].sent[Len(run'[a].sent)].val.val)
                   /\ sa'[a].BounceToRawString = (DOMAIN Data(a)' = {})]_vars

\* C13: "{}" sent as the first call of a request
C13_Witness ==
    /\ run["base"].sent = <<Str(JObj(EmptyMap))>>
    /\ sa["base"].BounceToRawString /\ DOMAIN Data("base") = {}

---------------------------------------------------------------------------
(* The form body and its parse: C14. *)

\* the key/value pairs of a Data map of strings, as url.Values
ValuesOfStrings(data) == [k \in DOMAIN data |-> <<data[k].val>>]

\* C14: for every Data map whose values are strings, the body the Form branch
\* encodes, parsed as a query string, gives the key/value pairs of the map:
\* no pair is lost, added or altered, and the parse has no error.
C14_FormRoundTrip ==
    form.pc = "parsed" =>
        /\ ~form.parsed.err
        /\ form.parsed.values = ValuesOfStrings(form.data)

\* C14: the round trip of two keys whose bytes and whose values need escapes
C14_Witness ==
    /\ form.pc = "parsed"
    /\ form.data = (<<"=">> :> JString(<<"&", "=">>) @@ <<"a", "&">> :> JString(<<"%", " ">>))
    /\ form.body.b = <<"%", "3", "D", "=", "%", "2", "6", "%", "3", "D", "&",
                       "a", "%", "2", "6", "=", "%", "2", "5", "+">>
    /\ form.parsed.values = ValuesOfStrings(form.data)

---------------------------------------------------------------------------
(* SendFile: C15, C16, C20. *)

\* a call of SendFile with the default field name (none given, "" or
\* "file") and without skipFileNumbering
DefaultField(call) ==
    /\ Len(call.args) < 2 \/ call.args[2] \in {"", "file"}
    /\ Len(call.args) < 3 \/ call.args[3] = FALSE

\* C15: when every SendFile of the request had the default field name and no
\* skipFileNumbering, the i-th attachment stored has the field name "file"
\* followed by i, the calls that failed and stored nothing not counting.
C15_FilesNumberedInOrder ==
    \A a \in live :
        (\A i \in 1..Len(run[a].files) : DefaultField(run[a].files[i])) =>
            \A i \in 1..Len(sa[a].FileData) :
                sa[a].FileData[i].Fieldname = "file" \o Itoa(i)

\* C15: three calls with the default field name, the second of which failed
\* on a path that cannot be read; the two attachments are file1 and file2
C15_Witness ==
    /\ Len(run["base"].files) = 3
    /\ \A i \in 1..3 : DefaultField(run["base"].files[i])
    /\ run["base"].files[2].file = "missing"
    /\ Len(sa["base"].FileData) = 2
    /\ sa["base"].FileData[2].Fieldname = "file2"
    /\ sa["base"].Errors = <<"io">>

\* the step is a SendFile of a
SendsFile(a) == a \in live /\ Len(run'[a].files) = Len(run[a].files) + 1

\* the call of the step
FileCall(a) == run'[a].files[Len(run'[a].files)]

\* the field names of the attachments of s
Fieldnames(s) == {s.FileData[i].Fieldname : i \in 1..Len(s.FileData)}

\* the number of a field name of the form fileN, 0 for any other name
NumberOf(name) ==
    IF \E n \in 1..9 : name = "file" \o Itoa(n)
    THEN CHOOSE n \in 1..9 : name = "file" \o Itoa(n)
    ELSE 0

\* the greatest number of the field names of s, 0 when there is none
GreatestNumber(s) ==
    LET ns == {NumberOf(name) : name \in Fieldnames(s)} \cup {0}
    IN  CHOOSE n \in ns : \A m \in ns : m <= n

\* C16 (as claimed): a SendFile that numbers the field name (field name
\* "file", skipFileNumbering false) and stores the attachment gives it the name
\* fileN, N the greatest number of the fileN names there are plus one, which
\* is the name of no attachment stored before it in the request.
C16_AutoNumberIsFresh ==
    [][\A a \in Agents :
          (SendsFile(a) /\ DefaultField(FileCall(a))
           /\ Len(sa'[a].FileData) = Len(sa[a].FileData) + 1) =>
              LET new == sa'[a].FileData[Len(sa'[a].FileData)].Fieldname
              IN  /\ new = "file" \o Itoa(GreatestNumber(sa[a]) + 1)
                  /\ new \notin Fieldnames(sa[a])]_vars

\* C20 (as claimed): a SendFile whose MIME type argument is the empty string
\* appends an error to Errors and stores no attachment.
C20_EmptyMimeRejected ==
    [][\A a \in Agents :
          (SendsFile(a) /\ Len(FileCall(a).args) >= 4 /\ FileCall(a).args[4] = "") =>
              /\ sa'[a].Errors = Append(sa[a].Errors, "mime")
              /\ sa'[a].FileData = sa[a].FileData]_vars

---------------------------------------------------------------------------
(* The encoding of a chain of Send calls: C17, C18, C19. *)

\* a Send of a had a query string of at least one key=value pair
SentQuery(a) ==
    \E i \in 1..Len(run[a].sent) :
        /\ run[a].sent[i].kind = "String"
        /\ run[a].sent[i].val.kind = "query"
        /\ run[a].sent[i].val.val # <<>>

\* MakeRequest built the request of a with no forced type and no
\* Content-Type header of the caller
BuiltUnforced(a) ==
    HasRequest(a) /\ built[a].pre.ForceType = "" /\ Get(built[a].h, "Content-Type") = ""

\* C17 (as claimed): with no forced type and no Content-Type header of the
\* caller, a request one of whose Send calls had a query string is sent with
\* the Content-Type application/x-www-form-urlencoded, whatever the other
\* Send calls were and in whatever order.
C17_QueryStringMeansForm ==
    \A a \in live :
        (BuiltUnforced(a) /\ SentQuery(a)) =>
            Get(built[a].req.Header, "Content-Type") = "application/x-www-form-urlencoded"

\* the strings SendString was called with, in call order, the empty string
\* adding nothing
RECURSIVE RawOf(_)
RawOf(sent) ==
    IF sent = <<>> THEN <<>>
    ELSE LET c == sent[Len(sent)]
             front == RawOf(SubSeq(sent, 1, Len(sent) - 1))
         IN  CASE c.kind = "String" /\ c.val # QStr(<<>>) -> Append(front, c.val)
               [] c.kind \in {"Int", "Uint", "Float", "Bool"} -> Append(front, JScalar(c.val))
               [] OTHER -> front

\* C18: the body of a request built under Text or XML is the concatenation,
\* in call order, of every string the request handed to SendString (integers,
\* floats and booleans as their decimal text, and the strings sent after the
\* bounce to the raw string as well), under the content type text/plain or
\* application/xml; when the concatenation is empty the request has no body.
C18_RawBodyIsAllStrings ==
    \A a \in live :
        (HasRequest(a) /\ built[a].req.branch \in {TypeText, TypeXML}) =>
            /\ built[a].req.body = RawOf(run[a].sent)
            /\ built[a].req.hasBody = (RawOf(run[a].sent) # <<>>)
            /\ built[a].req.hasBody => built[a].req.contentType = Types[built[a].req.branch]

\* C18: under XML, an integer and then, after the bounce, a query string
C18_Witness ==
    /\ HasRequest("base")
    /\ built["base"].req.branch = TypeXML
    /\ run["base"].sent = <<[kind |-> "Int", val |-> "7"], Str(QStr(<<<<"a", "3">>>>))>>
    /\ built["base"].req.body = <<JScalar("7"), QStr(<<<<"a", "3">>>>)>>
    /\ built["base"].req.contentType = "application/xml"

\* C19 (as claimed): on every agent (new, used before, a clone, or with
\* DoNotClearSuperAgent), a request that began with a verb other than Get and
\* has no forced type, no Content-Type header and no query string sent is
\* built under JSON; the target type is unset only under Get with no Send.
C19_DefaultIsJSON ==
    \A a \in live :
        (BuiltUnforced(a) /\ ~SentQuery(a)) =>
            /\ built[a].req.Method # "GET" => built[a].req.branch = TypeJSON
            /\ built[a].req.branch = "" => (built[a].req.Method = "GET" /\ run[a].sent = <<>>)

---------------------------------------------------------------------------
(* Send of a pointer: C21. *)

\* the step is a Send of a with a nil pointer
SendsNil(a) ==
    /\ a \in live
    /\ Len(run'[a].sent) = Len(run[a].sent) + 1
    /\ run'[a].sent[Len(run'[a].sent)].kind = "Ptr"
    /\ run'[a].sent[Len(run'[a].sent)].val.kind = "nil"

\* C21 (as claimed): Send of a nil pointer does nothing: it returns the
\* agent, whose chain goes on, and leaves Data, SliceData, RawString, the
\* other fields and Errors as they were.
C21_SendNilIsNoOp ==
    [][\A a \in Agents :
          SendsNil(a) => /\ pc'[a] = "idle"
                         /\ sa'[a] = sa[a]
                         /\ Data(a)' = Data(a)]_vars

---------------------------------------------------------------------------
(* The retry loop, step by step: C22 to C25. *)

\* the step is the one in which the loop of a decides on the attempt it made
Decides(a) == a \in live /\ pc[a] = "check" /\ pc'[a] # "check"

\* the last EndBytes call of a has returned, and no verb has begun another
\* request since
Returned(a) == Finished(a) /\ run[a].iters > 0

\* the retry condition on the attempt a has just made
RetryCondition(a) ==
    /\ sa[a].Retryable.Enable
    /\ sa[a].Retryable.Attempt < sa[a].Retryable.RetryerCount
    /\ \/ run[a].errs # <<>>
       \/ /\ run[a].res.kind = "resp"
          /\ \E i \in 1..Len(sa[a].Retryable.RetryableStatus) :
                sa[a].Retryable.RetryableStatus[i] = run[a].res.val.StatusCode

\* C22: after each attempt the loop attempts again if and only if the policy
\* is enabled, Attempt < RetryerCount, and the attempt had errors or a status
\* of RetryableStatus; before each further attempt it sleeps once and adds one
\* to Attempt, so that the attempts of a call are its sleeps plus one; a call
\* on an agent whose policy was never enabled makes exactly one attempt.
C22_RetryIffCondition ==
    /\ [][\A a \in Agents :
            Decides(a) =>
                IF RetryCondition(a)
                THEN /\ pc'[a] = "attempt"
                     /\ run'[a].sleeps = run[a].sleeps + 1
                     /\ sa'[a].Retryable.Attempt = sa[a].Retryable.Attempt + 1
                ELSE /\ pc'[a] = "idle"
                     /\ run'[a].sleeps = run[a].sleeps
                     /\ sa'[a].Retryable.Attempt = sa[a].Retryable.Attempt]_vars
    /\ [](\A a \in live :
            /\ pc[a] \in {"do", "check"} => run[a].iters = run[a].sleeps + 1
            /\ Returned(a) => run[a].iters = run[a].sleeps + 1
            /\ (Returned(a) /\ ~run[a].policy0.Enable) => run[a].iters = 1)

\* C22: a retry after an error, a retry after a status of the policy, and the
\* stop at a status that is not of the policy
C22_Witness ==
    /\ Returned("base")
    /\ run["base"].policy0.RetryerCount = 2
    /\ run["base"].log = <<NetError, Status(500), Status(200)>>
    /\ run["base"].sleeps = 2
    /\ sa["base"].Retryable.Attempt = 2

\* the greater of two integers
Max(m, n) == IF m >= n THEN m ELSE n

\* C23: a call of EndBytes whose attempts all return does itself return: every
\* retry adds one to Attempt, none is made once Attempt >= RetryerCount (nor
\* with RetryerCount <= 0), and the retries of one call are at most
\* max(0, RetryerCount - Attempt at the call), whatever the attempts answer.
C23_LoopTerminates ==
    /\ [](\A a \in live :
            /\ run[a].sleeps <= Max(0, run[a].policy0.RetryerCount - run[a].policy0.Attempt)
            /\ pc[a] # "idle" =>
                  sa[a].Retryable.Attempt = run[a].policy0.Attempt + run[a].sleeps)
    /\ \A a \in Agents : (pc[a] # "idle") ~> (pc[a] = "idle")

\* C23: a call that began with Attempt = 1 under RetryerCount = 2 has made its
\* one retry, every attempt having failed, and has returned
C23_Witness ==
    /\ Returned("base")
    /\ run["base"].policy0.Enable
    /\ run["base"].policy0.RetryerCount = 2
    /\ run["base"].policy0.Attempt = 1
    /\ run["base"].log = <<NetError, NetError>>
    /\ run["base"].sleeps = 1

\* the answer of the last attempt of the call of a
LastAttempt(a) == run[a].log[Len(run[a].log)]

\* C24: what EndBytes returns is the response and the errors of its last
\* attempt: a response (with its status) and no error after an attempt that
\* was answered; no response and the one error of that attempt after an
\* attempt that failed on the network, on the body or in MakeRequest; the
\* errors recorded before the call if the first attempt was the last.  Errors
\* of earlier attempts are not returned and exhaustion adds no error.
C24_ReturnsLastAttempt ==
    \A a \in live : Returned(a) =>
        /\ Len(run[a].log) = run[a].iters
        /\ LastAttempt(a).kind = "status" =>
              /\ run[a].retErrs = <<>>
              /\ run[a].retResp.kind = "resp"
              /\ run[a].retResp.val.StatusCode = LastAttempt(a).val
        /\ LastAttempt(a).kind = "error" =>
              /\ run[a].retErrs = <<LastAttempt(a).val>>
              /\ run[a].retResp = Nil
        /\ LastAttempt(a).kind = "errors" =>
              /\ run[a].retResp = Nil
              /\ IF run[a].iters = 1 /\ run[a].errs0 # <<>>
                 THEN run[a].retErrs = run[a].errs0
                 ELSE /\ Len(run[a].retErrs) = 1
                      /\ run[a].retErrs[1] \notin {"network", "read"}

\* C24: a call has returned after a network error, a body that could not be
\* read and a 500, all retried, with the 500 of its third attempt and no error
C24_Witness ==
    /\ Returned("base")
    /\ run["base"].log = <<NetError, ReadError, Status(500)>>
    /\ run["base"].sleeps = 2
    /\ run["base"].retErrs = <<>>
    /\ run["base"].retResp.kind = "resp"

(* The context: C25. *)

\* a has a context and the context is done
CtxCancelled(a) == a \in live /\ sa[a].ctx # "nil" /\ ctxDone

\* C25: cancelling the context does not end the loop of EndBytes: the
\* cancellation itself changes nothing of a call in progress; an attempt made
\* with a cancelled context fails with an error; after it the loop, if retry
\* is enabled, returns only once Attempt has reached RetryerCount, and
\* otherwise sleeps once and attempts again.
C25_CancelDoesNotEndLoop ==
    /\ [][ctxDone' # ctxDone => pc' = pc /\ run' = run /\ sa' = sa]_vars
    /\ [][\A a \in Agents :
            (CtxCancelled(a) /\ pc[a] = "do" /\ pc'[a] # "do") =>
                /\ pc'[a] = "check"
                /\ run'[a].log = Append(run[a].log, NetError)
                /\ run'[a].errs # <<>>]_vars
    /\ [][\A a \in Agents :
            (CtxCancelled(a) /\ Decides(a) /\ run[a].policy0.Enable
                /\ LastAttempt(a) = NetError) =>
                IF sa[a].Retryable.Attempt < sa[a].Retryable.RetryerCount
                THEN /\ pc'[a] = "attempt"
                     /\ run'[a].sleeps = run[a].sleeps + 1
                ELSE pc'[a] = "idle"]_vars

\* C25: under Retry(2, ..., 500) the first attempt was answered 500, the
\* context was cancelled, and the call has returned after two more attempts,
\* both failed, and two sleeps
C25_Witness ==
    /\ Returned("base")
    /\ CtxCancelled("base")
    /\ run["base"].policy0.RetryerCount = 2
    /\ run["base"].log = <<Status(500), NetError, NetError>>
    /\ run["base"].sleeps = 2
    /\ sa["base"].Retryable.Attempt = 2

---------------------------------------------------------------------------
(* The Content-Type header of the caller as the choice of the encoding: C26. *)

\* MakeRequest ran for a on a request with a method and no forced type
BuiltByHeader(a) ==
    a \in live /\ built[a].made /\ built[a].pre.ForceType = "" /\ built[a].pre.Method # ""

\* C26 (as claimed): with no forced type, when the Content-Type header of the
\* caller is the content type of an entry of Types, MakeRequest takes the
\* encoding of such an entry and returns a request and no error; when the
\* header is the content type of no entry, the target type stays as it was.
C26_HeaderTypeAdopted ==
    \A a \in live : BuiltByHeader(a) =>
        IF Matching(Get(built[a].h, "Content-Type")) # {}
        THEN /\ built[a].s.TargetType \in Matching(Get(built[a].h, "Content-Type"))
             /\ built[a].req.err = "none"
             /\ built[a].req.branch = built[a].s.TargetType
        ELSE built[a].s.TargetType = built[a].pre.TargetType

---------------------------------------------------------------------------
(* A query string sent to a key that Data holds: C27. *)

\* the step is a Send of a query string that SendString parses
SendsQuery(a) ==
    /\ a \in live
    /\ ~sa[a].BounceToRawString
    /\ Len(run'[a].sent) = Len(run[a].sent) + 1
    /\ run'[a].sent[Len(run'[a].sent)].kind = "String"
    /\ run'[a].sent[Len(run'[a].sent)].val.kind = "query"

\* the values of key k in the pairs of a query string, in their order
RECURSIVE QueryValues(_, _)
QueryValues(pairs, k) ==
    IF pairs = <<>> THEN <<>>
    ELSE (IF Head(pairs)[1] = k THEN <<Head(pairs)[2]>> ELSE <<>>)
         \o QueryValues(Tail(pairs), k)

\* the values a key holds, as strings, first sent first
StoredValues(v) == IF v.kind = "strarray" THEN v.val ELSE <<v.val>>

\* C27 (as claimed): a query string sent to a key that Data already holds
\* makes the value of the key an array of strings: the values the key held
\* before, whatever their kind, followed by the values of the query string,
\* all in the order in which they were sent.
C27_QueryValuesAccumulate ==
    [][\A a \in Agents : SendsQuery(a) =>
          \A k \in DOMAIN Data(a) :
              LET news == QueryValues(run'[a].sent[Len(run'[a].sent)].val.val, k)
              IN  news # <<>> =>
                     /\ Data(a)'[k].kind = "strarray"
                     /\ Data(a)'[k].val = StoredValues(Data(a)[k]) \o news]_vars

---------------------------------------------------------------------------
(* The flattening of an array: C28. *)

\* one value for every element of the array if its first element is a string,
\* a boolean or a number, and none otherwise
FlattenedByFirst(v) ==
    IF v.val # <<>> /\ v.val[1].kind \in ElementKinds
    THEN [i \in 1..Len(v.val) |-> v.val[i].val]
    ELSE <<>>

\* MakeRequest built the form body of a from its Data
BuiltForm(a) ==
    /\ HasRequest(a)
    /\ built[a].req.branch = TypeForm
    /\ ~built[a].s.BounceToRawString
    /\ built[a].s.SliceData = <<>>

\* C28 (as claimed): MakeRequest does not fail on any Data that Send calls
\* have made; in the form body a key that holds an array has one pair for
\* every element of the array if the first element is a string, a boolean or
\* a number, and no pair otherwise.
C28_FlattenCompletes ==
    \A a \in live :
        /\ pc[a] # "panic"
        /\ BuiltForm(a) =>
              \A k \in DOMAIN built[a].d :
                  built[a].d[k].kind = "array" =>
                      LET pairs == IF built[a].req.hasBody
                                   THEN built[a].req.body[1].val ELSE <<>>
                      IN  QueryValues(pairs, k) = FlattenedByFirst(built[a].d[k])

---------------------------------------------------------------------------
(* The choice of the payload under JSON and under Form: C29. *)

\* C29: under JSON the body of the request is the raw string as it is if the
\* agent has bounced to the raw string; else the JSON object of Data if Data
\* holds a key; else the JSON array of SliceData if it holds an element; else
\* there is no body.  Under Form the body is the raw string as it is if the
\* agent has bounced or SliceData holds an element, and else the URL-encoded
\* values of Data.  A body of no bytes is no body.
C29_PayloadPriority ==
    \A a \in live : HasRequest(a) =>
        LET s == built[a].s
            d == built[a].d
            req == built[a].req
        IN  /\ req.branch = TypeJSON =>
                  /\ req.body =
                        (IF s.BounceToRawString THEN s.RawString
                         ELSE IF DOMAIN d # {} THEN <<JObj(d)>>
                         ELSE IF s.SliceData # <<>> THEN <<JArr(s.SliceData)>>
                         ELSE <<>>)
                  /\ req.hasBody = (req.body # <<>>)
            /\ req.branch \in {TypeForm, TypeFormData, TypeUrlencoded} =>
                  /\ req.body =
                        (IF s.BounceToRawString \/ s.SliceData # <<>> THEN s.RawString
                         ELSE Encode(changeMapToURLValues(d)))
                  /\ req.hasBody = (req.body # <<>>)

\* C29: a request was built under JSON from an agent that had bounced to the
\* raw string and whose Data held a key: its body is the raw string
C29_Witness ==
    /\ HasRequest("base")
    /\ built["base"].req.branch = TypeJSON
    /\ built["base"].s.BounceToRawString
    /\ DOMAIN built["base"].d # {}
    /\ built["base"].s.SliceData = <<>>
    /\ built["base"].req.hasBody
    /\ built["base"].req.body = built["base"].s.RawString

---------------------------------------------------------------------------
(* The parts of a multipart body: C30. *)

\* MakeRequest took the multipart branch for a
BuiltMultipart(a) == HasRequest(a) /\ built[a].req.branch = TypeMultipart

\* the parts of the multipart body of a
PartsOf(a) == built[a].req.body[1].val.parts

\* the place of a kind of part in the body
SectionOf(part) ==
    CASE part = "raw" -> 1 [] part = "field" -> 2 [] part = "json" -> 3 [] part = "file" -> 4

\* the parts of one kind, in their order in the body
Section(parts, kind) == SelectSeq(parts, LAMBDA p : p.part = kind)

\* the name and content of the field parts are the pairs of the values of d,
\* key after key in some order of the keys
FieldsOf(fields, d) ==
    \E o \in KeyOrders :
        /\ Len(fields) = Len(PairsOf(changeMapToURLValues(d), o))
        /\ \A i \in 1..Len(fields) :
              <<fields[i].name, fields[i].content>> = PairsOf(changeMapToURLValues(d), o)[i]

\* C30: the parts of a multipart body come in this order: the field of the
\* raw string (if the agent has bounced to it, and only then), the fields of
\* the values of Data, one JSON part for SliceData (if it holds an element),
\* the files in the order of the SendFile calls.  The Content-Type of the
\* request carries the boundary of the finished body, and there is no body
\* when there is none of the four to write.
C30_MultipartOrder ==
    \A a \in live : BuiltMultipart(a) =>
        LET s == built[a].s
            d == built[a].d
            req == built[a].req
        IN  /\ req.hasBody =
                  (s.BounceToRawString \/ DOMAIN d # {} \/ s.SliceData # <<>>
                      \/ s.FileData # <<>>)
            /\ req.hasBody =>
                  /\ \A i, j \in 1..Len(PartsOf(a)) :
                        i < j => SectionOf(PartsOf(a)[i].part) <= SectionOf(PartsOf(a)[j].part)
                  /\ Len(Section(PartsOf(a), "raw")) = (IF s.BounceToRawString THEN 1 ELSE 0)
                  /\ \A i \in 1..Len(Section(PartsOf(a), "raw")) :
                        Section(PartsOf(a), "raw")[i].content = s.RawString
                  /\ FieldsOf(Section(PartsOf(a), "field"), d)
                  /\ Len(Section(PartsOf(a), "json")) = (IF s.SliceData # <<>> THEN 1 ELSE 0)
                  /\ \A i \in 1..Len(Section(PartsOf(a), "json")) :
                        Section(PartsOf(a), "json")[i].content = JArr(s.SliceData)
                  /\ Len(Section(PartsOf(a), "file")) = Len(s.FileData)
                  /\ \A i \in 1..Len(s.FileData) :
                        Section(PartsOf(a), "file")[i].content = s.FileData[i]
                  /\ req.contentType =
                        "multipart/form-data; boundary=" \o req.body[1].val.boundary
            /\ ~req.hasBody => req.body = <<>> /\ req.contentType = ""

\* C30: a multipart body of a field of Data followed by a file
C30_Witness ==
    /\ BuiltMultipart("base")
    /\ built["base"].req.hasBody
    /\ Len(PartsOf("base")) = 2
    /\ PartsOf("base")[1].part = "field"
    /\ PartsOf("base")[2].part = "file"
    /\ PartsOf("base")[2].name = "file1"

---------------------------------------------------------------------------
(* The headers of the request and the Host header: C31. *)

---------------------------------------------------------------------------
(* Client and transport settings of a clone: C32. *)

\* the step is a call of a setting on a
SettingCall(a) == a \in live /\ run'[a].calls = run[a].calls + 1

\* the settings b works with: the transport field of its client, the fields
\* of its transport and the fields of the transport its client points at
SettingsSeenBy(b) ==
    [client |-> clients[sa[b].Client],
     own |-> transports[sa[b].Transport],
     used |-> IF clients[sa[b].Client] = 0 THEN NoTransport
              ELSE transports[clients[sa[b].Client]]]

\* C32 (as claimed): a client or transport setting called on a clone leaves
\* the clone with a client or a transport of its own and changes no setting
\* of the client and of the transports of the agent it was cloned from.
C32_CloneSettingsApart ==
    [][\A a \in Agents :
          (SettingCall(a) /\ sa[a].isClone /\ Other(a) \in live) =>
              /\ SettingsSeenBy(Other(a))' = SettingsSeenBy(Other(a))
              /\ \/ sa'[a].Client # sa'[Other(a)].Client
                 \/ sa'[a].Transport # sa'[Other(a)].Transport]_vars

---------------------------------------------------------------------------
(* The errors recorded on the agent: C33. *)

\* q begins with p
BeginsWith(q, p) == Len(p) <= Len(q) /\ SubSeq(q, 1, Len(p)) = p

\* the last EndBytes of a has returned the errors a holds
ErrorsReturned(a) == Returned(a) /\ run[a].retErrs = sa[a].Errors

\* C33 (as claimed): a call made outside EndBytes (a verb, a configuration or
\* accumulation call, MakeRequest) keeps the errors the agent holds, in their
\* order, unless EndBytes has returned them; and an EndBytes called on an
\* agent that holds errors returns these errors.
C33_ErrorsKeptUntilReturned ==
    /\ [][\A a \in Agents :
            (a \in live /\ pc[a] = "idle" /\ pc'[a] = "idle" /\ ~ErrorsReturned(a)) =>
                BeginsWith(sa'[a].Errors, sa[a].Errors)]_vars
    /\ [](\A a \in live :
            (Returned(a) /\ run[a].errs0 # <<>>) => run[a].retErrs = run[a].errs0)

---------------------------------------------------------------------------
(* The retries of a second EndBytes: C34. *)

\* C34 (as claimed): every call of EndBytes begins with Attempt = 0, whatever
\* the calls before it have used, and the Retry-Count of the response it
\* returns is the number of the retries of this call.
C34_BudgetPerCall ==
    \A a \in live :
        /\ (pc[a] # "idle" \/ Returned(a)) => run[a].policy0.Attempt = 0
        /\ (Returned(a) /\ run[a].retResp # Nil) =>
              run[a].retResp.val.RetryCount = Itoa(run[a].sleeps)

---------------------------------------------------------------------------
(* What a verb resets and what it keeps: C35. *)

\* a step of a verb of a under SpecVerb: there every other call of a live
\* agent counts one call more, and a verb on an agent that clears begins the
\* count anew
VerbCall(a) ==
    /\ a \in live
    /\ sa'[a] # sa[a]
    /\ run'[a].calls <= run[a].calls

\* the fields of the agent a verb writes also when it does not clear
VerbFields == {"Method", "Url", "Errors", "TargetType"}

---------------------------------------------------------------------------
(* BounceToRawString within one request: C36. *)

\* a step within the request of a: no verb has begun the count of its calls
\* anew
SameRequest(a) == a \in live /\ run'[a].calls >= run[a].calls /\ run[a].calls > 0

\* the step is a Send of a string by a
StringSend(a) ==
    /\ Len(run'[a].sent) = Len(run[a].sent) + 1
    /\ run'[a].sent[Len(run'[a].sent)].kind = "String"

\* C36: within one request no Send, Query, header, file or build call sets
\* BounceToRawString back from true to false, and while it is true a Send of
\* a string changes RawString and nothing else of the agent: Data, SliceData
\* and TargetType stay as they are.
C36_BounceMonotone ==
    [][\A a \in Agents :
          (SameRequest(a) /\ sa[a].BounceToRawString) =>
              /\ sa'[a].BounceToRawString
              /\ StringSend(a) =>
                    /\ \A f \in DOMAIN sa[a] \ {"RawString"} : sa'[a][f] = sa[a][f]
                    /\ heap' = heap]_vars

\* MakeRequest has set the bounce for an object mixed with a slice, and a
\* query string sent after it has been added to RawString only
C36_Witness ==
    /\ built["base"].made /\ ~built["base"].pre.BounceToRawString
    /\ built["base"].s.BounceToRawString
    /\ sa["base"].BounceToRawString
    /\ run["base"].sent # <<>>
    /\ run["base"].sent[Len(run["base"].sent)] = Str(QStr(<<<<"a", "3">>>>))
    /\ sa["base"].RawString # built["base"].s.RawString
    /\ sa["base"].TargetType # TypeForm
    /\ Data("base") = built["base"].d

---------------------------------------------------------------------------
(* What one attempt returns: C37. *)

\* getResponseBytes of a has returned and shouldRetry is about to look at
\* what it returned
AttemptReturned(a) == a \in live /\ pc[a] = "check"

\* C37: every attempt returns a response or a list of errors that is not
\* empty, whatever the retry policy and whatever the attempt met (errors on
\* the agent, a request that cannot be built, a network error, a body that
\* cannot be read); so shouldRetry reads the status of a response only when
\* there is one, and the response EndBytes returns with a Retry-Count is
\* never a missing one.
C37_ResponseOrErrors ==
    \A a \in Agents :
        /\ AttemptReturned(a) =>
              /\ run[a].res.kind = "resp" \/ run[a].errs # <<>>
              /\ run[a].res.kind \in {"resp", "nil"}
        /\ (Returned(a) /\ run[a].retResp.kind # "resp") =>
              /\ run[a].retResp = Nil
              /\ run[a].retErrs # <<>>

\* under a policy that still allows a retry the body of a response could not
\* be read: the attempt has returned no response and the one error of the
\* read, and the agent holds no error
C37_Witness ==
    /\ AttemptReturned("base")
    /\ run["base"].res = Nil /\ run["base"].errs = <<"read">>
    /\ sa["base"].Errors = <<>>
    /\ sa["base"].Retryable.Enable
    /\ sa["base"].Retryable.Attempt < sa["base"].Retryable.RetryerCount

---------------------------------------------------------------------------
(* A query string and the form body made of it: C38. *)

\* a has been given a verb and one Send, of a query string, and MakeRequest
\* has built its request
BuiltOfOneQuery(a) ==
    /\ HasRequest(a)
    /\ sa[a].Method # ""
    /\ Len(run[a].sent) = 1
    /\ run[a].sent[1].kind = "String" /\ run[a].sent[1].val.kind = "query"

\* the pairs url.ParseQuery reads in a body: those of the query string it
\* holds, none when there is no body
PairsOfBody(req) == IF req.hasBody THEN req.body[1].val ELSE <<>>

\* C38 (as claimed): a query string sent as the only Send of a request gives
\* a form body that parses to the mapping the query string parses to: the
\* same keys, and for every key the same values in the same order.
C38_FormBodyKeepsQuery ==
    \A a \in Agents : BuiltOfOneQuery(a) =>
        /\ built[a].req.branch = TypeForm
        /\ \A k \in Keys :
              QueryValues(PairsOfBody(built[a].req), k)
                  = QueryValues(run[a].sent[1].val.val, k)

---------------------------------------------------------------------------
(* MakeRequest in the middle of a chain: C39. *)

\* the agent s as its verb left it, under SpecInsert: Send and MakeRequest
\* write no other field of it
AfterVerb(s) ==
    [s EXCEPT !.TargetType = IF s.Method = "GET" THEN "" ELSE TypeJSON,
              !.BounceToRawString = FALSE, !.RawString = <<>>,
              !.SliceData = <<>>, !.Errors = <<>>]

\* the agent and its Data after the Send calls of cs, one after the other,
\* with no MakeRequest between them
RECURSIVE SendAll(_, _, _)
SendAll(s, d, cs) ==
    IF cs = <<>> THEN [s |-> s, d |-> d]
    ELSE SendAll(SendOf(s, d, Head(cs)).s, SendOf(s, d, Head(cs)).d, Tail(cs))

\* the request MakeRequest builds at the end of the chain of a when it is
\* called nowhere else in the chain
BuiltOnce(a) ==
    LET r == SendAll(AfterVerb(sa[a]), EmptyMap, run[a].sent)
    IN  MakeRequestOf(r.s, r.d, Header(a), "", NoWriter)

\* two requests of the same encoding, content type and body
SameBuilt(x, y) ==
    /\ x.err = y.err
    /\ x.branch = y.branch
    /\ x.contentType = y.contentType
    /\ x.hasBody = y.hasBody
    /\ Len(x.body) = Len(y.body)
    /\ \A i \in 1..Len(x.body) : x.body[i].kind = y.body[i].kind /\ x.body[i] = y.body[i]

\* MakeRequest was the last call of the chain of a
BuiltLast(a) ==
    /\ a \in live /\ built[a].made /\ sa[a].Method # ""
    /\ built[a].s = sa[a] /\ built[a].d = Data(a)

\* C39 (as claimed): MakeRequest has no effect on the calls after it: the
\* request built at the end of a chain of Send calls is the same (encoding,
\* content type and body) whether or not MakeRequest was also called at
\* other places of the chain.
C39_BuildLeavesNoTrace ==
    \A a \in Agents : BuiltLast(a) => SameBuilt(built[a].req, BuiltOnce(a))

====
